---- MODULE Spec2Model ----
(***************************************************************************)
(* Content publisher: the work coordinator (index.js), the extraction      *)
(* worker (workers/extract-input.js) seen from the coordinator, the        *)
(* publish worker (workers/publish-draft.js) and the CMS it talks to.      *)
(***************************************************************************)
EXTENDS Integers, Sequences, FiniteSets, TLC

\* ------------------------------------------------------------------------
\* Bounds and program constants
\* ------------------------------------------------------------------------

\* largest number of draft files found in the intake directory
MaxFiles == 2

\* largest number of files of one batch whose draft differs from the base draft
MaxVariantDrafts == 1

\* largest number of environment failures in one run (a failed CMS call, an
\* unreadable file, a failed rename)
MaxFaults == 1

\* index.js: const maxConcurrentWorkers = 4
maxConcurrentWorkersMut == 4 + 1

maxConcurrentWorkers == 4

\* number of draft files of a batch that is larger than the worker pool
PoolFiles == 5

FileNames == 1..(IF MaxFiles > PoolFiles THEN MaxFiles ELSE PoolFiles)

\* ------------------------------------------------------------------------
\* The CMS as the REST boundary the workers call
\* ------------------------------------------------------------------------

\* post statuses the CMS can report for a record
Statuses == {"draft", "publish", "private"}

\* /wp/v2/users?search=<name>: id of data[0], 0 when data is empty
UserId(name) == IF name = "Jane" THEN 7 ELSE 0

\* /wp/v2/playbook_tag?search=<term>: id of data[0], 0 when data is empty
TagId(term) == IF term = "t1" THEN 11 ELSE IF term = "t2" THEN 12 ELSE 0

\* /wp/v2/playbook_category?search=<term>: id of data[0], 0 when data is empty
CategoryId(term) == IF term = "c1" THEN 21 ELSE 0

\* /wp/v2/media?search=<name>: id of data[0], 0 when data is empty
MediaId(name) == IF name = "img1" THEN 31 ELSE 0

\* existingPost = null
NoPost == [id |-> 0, slug |-> "", title |-> "", status |-> ""]

\* ------------------------------------------------------------------------
\* Draft documents and what extractData returns for them
\* ------------------------------------------------------------------------

\* a draft whose markers are all well formed and resolvable
BaseDraft ==
  [title |-> "T", author |-> "Jane", url |-> "s1",
   tags |-> <<"t1">>, categories |-> <<"c1">>,
   faq |-> "table", image |-> ""]

\* the drafts a file of the intake directory may hold: the base draft and
\* the drafts that differ from it in one marker
DraftKinds ==
  << BaseDraft,
     [BaseDraft EXCEPT !.url = "s2"],
     [BaseDraft EXCEPT !.url = ""],
     [BaseDraft EXCEPT !.author = "Bob"],
     [BaseDraft EXCEPT !.tags = <<"t1", "tX">>],
     [BaseDraft EXCEPT !.tags = <<>>],
     [BaseDraft EXCEPT !.categories = <<"c1", "cX">>],
     [BaseDraft EXCEPT !.faq = "string"],
     [BaseDraft EXCEPT !.image = "img1"],
     [BaseDraft EXCEPT !.image = "imgX"] >>

Drafts == {DraftKinds[i] : i \in 1..Len(DraftKinds)}

\* position of a draft in DraftKinds
KindOf(d) == CHOOSE i \in 1..Len(DraftKinds) : DraftKinds[i] = d

NoDraft ==
  [title |-> "", author |-> "", url |-> "",
   tags |-> <<>>, categories |-> <<>>, faq |-> "table", image |-> ""]

VARIABLES
  dirExists,        \* fs.existsSync(playbookDir)
  drafts,           \* per file of the intake directory: the draft it holds
  intake,           \* files in playbook-drafts/
  archive,          \* files in playbook-published/
  pc,               \* position of the coordinator's main thread
  exitCode,         \* code passed to process.exit, -1 while running
  processingQueue,  \* index.js processingQueue
  activeWorkers,    \* index.js activeWorkers
  extractedFiles,   \* index.js extractedFiles
  pubIdx,           \* position of the for..of loop of publishSequentially
  phase2Starts,     \* number of calls of publishSequentially
  ext,              \* per file: the extract-input worker
  pub,              \* per file: the publish-draft worker
  posts,            \* the CMS's post records
  calls,            \* per file: the CMS calls issued for it, in order
  writes,           \* the write calls (POST / PUT) the CMS received
  faults,           \* number of environment failures so far
  walk              \* extractData: the document and the state of its walk

vars == <<dirExists, drafts, intake, archive, pc, exitCode, processingQueue,
          activeWorkers, extractedFiles, pubIdx, phase2Starts, ext, pub,
          posts, calls, writes, faults, walk>>

coordVars == <<pc, exitCode, processingQueue, activeWorkers, extractedFiles,
               pubIdx, phase2Starts>>

\* an extract-input worker that has not been created
ExtIdle == [pc |-> "idle", doc |-> NoDraft, err |-> "", handled |-> FALSE]

\* a publish-draft worker that has not been created
PubIdle ==
  [pc |-> "idle", blogData |-> NoDraft, authorId |-> 0, termIds |-> <<>>,
   categoryIds |-> <<>>, existingPost |-> NoPost, err |-> "",
   success |-> FALSE, rename |-> "none"]

\* ------------------------------------------------------------------------
\* Sequence helpers
\* ------------------------------------------------------------------------

RECURSIVE MapIds(_, _)
\* items.map(term => id of data[0]) for the tag (kind "tag") or category lookups
MapIds(kind, items) ==
  IF items = <<>> THEN <<>>
  ELSE <<IF kind = "tag" THEN TagId(Head(items)) ELSE CategoryId(Head(items))>>
       \o MapIds(kind, Tail(items))

RECURSIVE FilterBoolean(_)
\* ids.filter(Boolean)
FilterBoolean(ids) ==
  IF ids = <<>> THEN <<>>
  ELSE (IF Head(ids) # 0 THEN <<Head(ids)>> ELSE <<>>) \o FilterBoolean(Tail(ids))

RECURSIVE Repeat(_, _)
Repeat(x, n) == IF n = 0 THEN <<>> ELSE <<x>> \o Repeat(x, n - 1)

Range(s) == {s[i] : i \in 1..Len(s)}

\* the outcomes the environment may give to one call: success, or a failure
\* while the run's failures are within the bound
Outcomes == IF faults < MaxFaults THEN {TRUE, FALSE} ELSE {TRUE}

Fault(ok) == faults' = faults + (IF ok THEN 0 ELSE 1)

\* no document is being walked
NoWalk == [doc |-> <<>>, next |-> 0, st |-> <<>>]

\* the coordinator, the workers and the call records before the run starts
InitRun ==
  /\ archive = {}
  /\ pc = "start"
  /\ exitCode = -1
  /\ processingQueue = <<>>
  /\ activeWorkers = 0
  /\ extractedFiles = <<>>
  /\ pubIdx = 0
  /\ phase2Starts = 0
  /\ ext = [f \in FileNames |-> ExtIdle]
  /\ pub = [f \in FileNames |-> PubIdle]
  /\ calls = [f \in FileNames |-> <<>>]
  /\ writes = <<>>

\* a run over a small batch: any draft, any environment failure, a CMS that
\* may already hold a record for slug s1 that an editor promoted (a record in
\* status draft is what the run itself creates).  The files of a
\* batch that fits the worker pool are all started by main's initial loop
\* and complete in any order, so which file holds which draft is immaterial:
\* the files hold their drafts in the order of DraftKinds, last kind first.
Init ==
  /\ dirExists \in BOOLEAN
  /\ \E n \in 0..MaxFiles : intake = (IF dirExists THEN 1..n ELSE {})
  /\ drafts \in [FileNames -> Drafts \cup {NoDraft}]
  /\ \A f \in FileNames : drafts[f] = NoDraft <=> f \notin intake
  /\ \A f, g \in intake : f < g => KindOf(drafts[f]) >= KindOf(drafts[g])
  /\ Cardinality({f \in intake : drafts[f] # BaseDraft}) <= MaxVariantDrafts
  /\ posts \in {<<>>} \cup
        {<<[id |-> 1, slug |-> "s1", title |-> "T", status |-> st]>> :
           st \in Statuses \ {"draft"}}
  /\ faults = 0
  /\ InitRun
  /\ walk = NoWalk

\* a run over a batch larger than the worker pool: every draft is the base
\* draft or the draft with the unresolvable image, the environment never
\* fails and the CMS starts empty
InitPool ==
  /\ dirExists = TRUE
  /\ intake = 1..PoolFiles
  /\ drafts \in [FileNames -> {BaseDraft, [BaseDraft EXCEPT !.image = "imgX"], NoDraft}]
  /\ \A f \in FileNames : drafts[f] = NoDraft <=> f \notin intake
  /\ posts = <<>>
  /\ faults = MaxFaults
  /\ InitRun
  /\ walk = NoWalk

\* a run over a batch of one file or more with any pattern of failures: each
\* draft is the base draft, a draft whose extraction fails (image not found)
\* or a draft whose publish fails (author not found), the environment may
\* fail, the CMS starts empty
InitLive ==
  /\ dirExists = TRUE
  /\ \E n \in 1..MaxFiles : intake = 1..n
  /\ drafts \in [FileNames -> {BaseDraft, [BaseDraft EXCEPT !.image = "imgX"],
                               [BaseDraft EXCEPT !.author = "Bob"], NoDraft}]
  /\ \A f \in FileNames : drafts[f] = NoDraft <=> f \notin intake
  /\ posts = <<>>
  /\ faults = 0
  /\ InitRun
  /\ walk = NoWalk

\* ------------------------------------------------------------------------
\* Coordinator (index.js)
\* ------------------------------------------------------------------------

\* files.js getFilesInDirectory: the files of the intake directory in
\* directory order
getFilesInDirectory == [i \in 1..Cardinality(intake) |-> i]

\* processNext, first branch: a queued file and a free worker slot
CanStartNextMut(queue, active) ==
  Len(queue) > 0 /\ active < maxConcurrentWorkers - 1

CanStartNext(queue, active) ==
  Len(queue) > 0 /\ active < maxConcurrentWorkers

\* processNext, second branch: nothing queued and nothing in flight
AllExtractedMut(queue, active) == Len(queue) = 0

AllExtracted(queue, active) ==
  Len(queue) = 0 /\ active = 0

\* one call of processNext on the coordinator's queue and counter; started
\* collects the files handed to processFile, publish tells whether
\* publishSequentially was called
processNext(s) ==
  IF CanStartNext(s.queue, s.active)
  THEN [queue |-> Tail(s.queue), active |-> s.active + 1,
        started |-> s.started \cup {Head(s.queue)}, publish |-> s.publish]
  ELSE IF AllExtracted(s.queue, s.active)
       THEN [s EXCEPT !.publish = TRUE]
       ELSE s

RECURSIVE processNextTimes(_, _)
\* for (i = 0; i < k; i++) processNext()
processNextTimes(s, k) ==
  IF k = 0 THEN s ELSE processNextTimes(processNext(s), k - 1)

Min(a, b) == IF a < b THEN a ELSE b

\* startWorker('extract-input', {fileName}): a new worker that got its message
ExtStartedMut == [pc |-> "created", doc |-> NoDraft, err |-> "", handled |-> FALSE]

ExtStarted == [pc |-> "running", doc |-> NoDraft, err |-> "", handled |-> FALSE]

\* startWorker('publish-draft', {input, fileName}): a new worker that got its
\* message and entered publishPost
PubStarted(doc) == [PubIdle EXCEPT !.pc = "author", !.blogData = doc]

\* the promise of startWorker is settled: resolved by the worker's message, or
\* rejected by its exit with a non-zero code
SettledMut(w) == TRUE

Settled(w) == w.pc \in {"posted", "exited"}

\* the await in processFile returned a value (the worker's message) instead
\* of throwing into the catch block
AwaitReturnedMut(w) == TRUE

AwaitReturned(w) == w.pc = "posted"

\* for (const {fileName, extractDoc} of extractedFiles): the entry of the
\* k-th iteration
NextToPublishMut(xf, k) ==
  CHOOSE e \in Range(xf) :
    Cardinality({d \in Range(xf) : d.fileName <= e.fileName}) = k

NextToPublish(xf, k) == xf[k]

\* the catch block inside the loop of publishSequentially: a rejected
\* startWorker promise does not leave the loop
LoopAbortsMut(w) == w.pc = "exited"

LoopAborts(w) == FALSE

\* fs.existsSync(playbookDir)
existsSyncMut == TRUE

existsSync == dirExists

\* publishSequentially from its call to its first await (or to process.exit
\* when there is nothing to publish); xf is extractedFiles at the call
publishSequentially(xf) ==
  /\ phase2Starts' = phase2Starts + 1
  /\ IF Len(xf) = 0
     THEN /\ pc' = "exited"
          /\ exitCode' = 0
          /\ pubIdx' = pubIdx
          /\ pub' = pub
     ELSE /\ pc' = "publishing"
          /\ exitCode' = exitCode
          /\ pubIdx' = 1
          /\ pub' = [pub EXCEPT ![NextToPublish(xf, 1).fileName] =
                       PubStarted(NextToPublish(xf, 1).extractDoc)]

\* the event handler of index.js up to the end of its initial loop
Main ==
  /\ pc = "start"
  /\ IF ~existsSync
     THEN /\ pc' = "exited"
          /\ exitCode' = 1
          /\ UNCHANGED <<processingQueue, activeWorkers, ext>>
     ELSE LET files == getFilesInDirectory
              r == processNextTimes(
                     [queue |-> files, active |-> 0, started |-> {}, publish |-> FALSE],
                     Min(Len(files), maxConcurrentWorkers))
          IN IF Len(files) = 0
             THEN /\ pc' = "returned"
                  /\ UNCHANGED <<exitCode, processingQueue, activeWorkers, ext>>
             ELSE /\ pc' = "extracting"
                  /\ processingQueue' = r.queue
                  /\ activeWorkers' = r.active
                  /\ ext' = [f \in FileNames |->
                               IF f \in r.started THEN ExtStarted ELSE ext[f]]
                  /\ UNCHANGED exitCode
  /\ UNCHANGED <<walk, dirExists, drafts, intake, archive, extractedFiles, pubIdx,
                 phase2Starts, pub, posts, calls, writes, faults>>

\* processFile after its await: push on success, then the finally block
\* (activeWorkers--, processNext())
ProcessFileSettled(f) ==
  /\ pc \in {"extracting", "publishing"}
  /\ ext[f].pc # "idle"
  /\ ~ext[f].handled
  /\ Settled(ext[f])
  /\ LET xf == IF AwaitReturned(ext[f])
               THEN Append(extractedFiles, [fileName |-> f, extractDoc |-> ext[f].doc])
               ELSE extractedFiles
         r == processNext([queue |-> processingQueue, active |-> activeWorkers - 1,
                           started |-> {}, publish |-> FALSE])
     IN /\ extractedFiles' = xf
        /\ processingQueue' = r.queue
        /\ activeWorkers' = r.active
        /\ ext' = [g \in FileNames |->
                     IF g = f THEN [ext[f] EXCEPT !.handled = TRUE]
                     ELSE IF g \in r.started THEN ExtStarted ELSE ext[g]]
        /\ IF r.publish
           THEN publishSequentially(xf)
           ELSE UNCHANGED <<pc, exitCode, pubIdx, phase2Starts, pub>>
  /\ UNCHANGED <<walk, dirExists, drafts, intake, archive, posts, calls, writes, faults>>

\* publishSequentially after the await of one iteration: the next iteration
\* starts its worker, or the loop ends and the process exits
PublishSettled ==
  /\ pc = "publishing"
  /\ pubIdx \in 1..Len(extractedFiles)
  /\ Settled(pub[NextToPublish(extractedFiles, pubIdx).fileName])
  /\ IF /\ pubIdx < Len(extractedFiles)
        /\ ~LoopAborts(pub[NextToPublish(extractedFiles, pubIdx).fileName])
     THEN /\ pubIdx' = pubIdx + 1
          /\ pub' = [pub EXCEPT ![NextToPublish(extractedFiles, pubIdx + 1).fileName] =
                       PubStarted(NextToPublish(extractedFiles, pubIdx + 1).extractDoc)]
          /\ UNCHANGED <<pc, exitCode>>
     ELSE /\ pc' = "exited"
          /\ exitCode' = 0
          /\ UNCHANGED <<pubIdx, pub>>
  /\ UNCHANGED <<walk, dirExists, drafts, intake, archive, processingQueue, activeWorkers,
                 extractedFiles, phase2Starts, ext, posts, calls, writes, faults>>

\* ------------------------------------------------------------------------
\* Extraction worker (workers/extract-input.js), as the coordinator sees it
\* ------------------------------------------------------------------------

\* the message handler of extract-input.js: extractData reads the file, walks
\* the document and resolves a content:image marker against the media
\* library; a thrown error leaves the handler as an unhandled rejection and
\* the worker exits with code 1, otherwise the parsed post is posted
ExtractData(f) ==
  /\ pc # "exited"
  /\ ext[f].pc = "running"
  /\ \E readable \in Outcomes, transport \in Outcomes :
       LET d == drafts[f]
       IN
       IF ~readable
       THEN /\ ext' = [ext EXCEPT ![f].pc = "exited", ![f].err = "read"]
            /\ calls' = calls
            /\ Fault(FALSE)
       ELSE IF d.image = ""
       THEN /\ ext' = [ext EXCEPT ![f].pc = "posted", ![f].doc = d]
            /\ calls' = calls
            /\ Fault(TRUE)
       ELSE /\ calls' = [calls EXCEPT ![f] = Append(@, "GET media")]
            /\ Fault(transport)
            /\ ext' = [ext EXCEPT
                 ![f].doc = d,
                 ![f].pc = IF transport /\ MediaId(d.image) # 0
                           THEN "posted" ELSE "exited",
                 ![f].err = IF ~transport THEN "imageTransport"
                            ELSE IF MediaId(d.image) = 0 THEN "imageNotFound"
                            ELSE ""]
  /\ UNCHANGED <<walk, dirExists, drafts, intake, archive, coordVars, pub, posts, writes>>

\* ------------------------------------------------------------------------
\* Publish worker (workers/publish-draft.js)
\* ------------------------------------------------------------------------

\* throw inside publishPost: the outer catch rethrows, the message handler
\* rethrows (moveFile is skipped), the worker exits with code 1 without
\* posting a result
ThrowMut(w, e) == [w EXCEPT !.pc = "exited", !.err = e, !.rename = "pending"]

Throw(w, e) == [w EXCEPT !.pc = "exited", !.err = e]

\* authorResponse.data[0] && authorResponse.data[0].id
AuthorFoundMut(id) == TRUE

AuthorFound(id) == id # 0

\* publishPost, author lookup
AuthorLookup(f) ==
  /\ pc # "exited"
  /\ pub[f].pc = "author"
  /\ calls' = [calls EXCEPT ![f] = Append(@, "GET users")]
  /\ \E transport \in Outcomes :
       LET id == UserId(pub[f].blogData.author)
       IN /\ Fault(transport)
          /\ pub' = [pub EXCEPT ![f] =
                    IF ~transport THEN Throw(@, "authorTransport")
                    ELSE IF ~AuthorFound(id) THEN Throw(@, "authorNotFound")
                    ELSE [@ EXCEPT !.authorId = id, !.pc = "tags"]]
  /\ UNCHANGED <<walk, dirExists, drafts, intake, archive, coordVars, ext, posts, writes>>

\* the Promise.all over one term list: the resolved ids when every lookup
\* returned a match, a throw when one of them returned none
ResolveTermsMut(kind, items) == [ok |-> TRUE, ids |-> FilterBoolean(MapIds(kind, items))]

ResolveTerms(kind, items) ==
  IF \E i \in 1..Len(items) : MapIds(kind, items)[i] = 0
  THEN [ok |-> FALSE, ids |-> <<>>]
  ELSE [ok |-> TRUE, ids |-> FilterBoolean(MapIds(kind, items))]

\* publishPost, tag lookups
TagLookup(f) ==
  /\ pc # "exited"
  /\ pub[f].pc = "tags"
  /\ LET items == pub[f].blogData.tags
         r == ResolveTerms("tag", items)
     IN /\ calls' = [calls EXCEPT ![f] = @ \o Repeat("GET playbook_tag", Len(items))]
        /\ \E transport \in (IF Len(items) > 0 THEN Outcomes ELSE {TRUE}) :
             /\ Fault(transport)
             /\ pub' = [pub EXCEPT ![f] =
                       IF ~transport THEN Throw(@, "termTransport")
                       ELSE IF ~r.ok THEN Throw(@, "termNotFound")
                       ELSE [@ EXCEPT !.termIds = r.ids, !.pc = "categories"]]
  /\ UNCHANGED <<walk, dirExists, drafts, intake, archive, coordVars, ext, posts, writes>>

\* publishPost, category lookups
CategoryLookup(f) ==
  /\ pc # "exited"
  /\ pub[f].pc = "categories"
  /\ LET items == pub[f].blogData.categories
         r == ResolveTerms("category", items)
     IN /\ calls' = [calls EXCEPT ![f] = @ \o Repeat("GET playbook_category", Len(items))]
        /\ \E transport \in (IF Len(items) > 0 THEN Outcomes ELSE {TRUE}) :
             /\ Fault(transport)
             /\ pub' = [pub EXCEPT ![f] =
                       IF ~transport THEN Throw(@, "categoryTransport")
                       ELSE IF ~r.ok THEN Throw(@, "categoryNotFound")
                       ELSE [@ EXCEPT !.categoryIds = r.ids, !.pc = "exists"]]
  /\ UNCHANGED <<walk, dirExists, drafts, intake, archive, coordVars, ext, posts, writes>>

\* if (blogData.url): whether the existence lookup is made at all
LooksUpMut(blogData) == TRUE

LooksUp(blogData) == blogData.url # ""

\* queryParam of the existence lookup
queryParam(blogData) ==
  IF blogData.url # "" THEN "slug" ELSE "search"

\* the records the CMS returns for the existence lookup with status=any
MatchesMut(blogData) ==
  {p \in Range(posts) : p.slug = blogData.url /\ p.status = "publish"}

Matches(blogData) ==
  IF queryParam(blogData) = "slug"
  THEN {p \in Range(posts) : p.slug = blogData.url}
  ELSE {p \in Range(posts) : p.title = blogData.title}

\* publishPost, existence lookup; a failed lookup is logged and the post is
\* taken not to exist
ExistenceLookup(f) ==
  /\ pc # "exited"
  /\ pub[f].pc = "exists"
  /\ IF LooksUp(pub[f].blogData)
     THEN /\ calls' = [calls EXCEPT ![f] =
                 Append(@, IF queryParam(pub[f].blogData) = "slug"
                           THEN "GET posts slug status=any"
                           ELSE "GET posts search status=any")]
          /\ \E transport \in Outcomes :
               \E found \in (IF transport THEN Matches(pub[f].blogData) ELSE {})
                              \cup {NoPost} :
                 /\ (transport /\ Matches(pub[f].blogData) # {}) => found # NoPost
                 /\ Fault(transport)
                 /\ pub' = [pub EXCEPT ![f].existingPost = found, ![f].pc = "write",
                              ![f].err = IF transport THEN "" ELSE "existsTransport"]
     ELSE /\ calls' = calls
          /\ pub' = [pub EXCEPT ![f].pc = "write"]
          /\ UNCHANGED faults
  /\ UNCHANGED <<walk, dirExists, drafts, intake, archive, coordVars, ext, posts, writes>>

\* status of the create payload
CreateStatusMut == "publish"

CreateStatus == "draft"

\* status of the update payload
UpdateStatusMut(existingPost) == "draft"

UpdateStatus(existingPost) == existingPost.status

\* the payload of the write call
Payload(f, w) ==
  [file |-> f,
   method |-> IF w.existingPost # NoPost THEN "PUT" ELSE "POST",
   id |-> w.existingPost.id,
   title |-> w.blogData.title,
   status |-> IF w.existingPost # NoPost THEN UpdateStatus(w.existingPost)
              ELSE CreateStatus,
   author |-> w.authorId,
   playbook_tag |-> w.termIds,
   playbook_category |-> w.categoryIds,
   slug |-> w.blogData.url]

\* the CMS applies a write: a create appends a record with a new id, an
\* update replaces the fields of the addressed record
ApplyWrite(ps, c) ==
  IF c.method = "POST"
  THEN Append(ps, [id |-> Len(ps) + 1, slug |-> c.slug, title |-> c.title,
                   status |-> c.status])
  ELSE [i \in 1..Len(ps) |->
          IF ps[i].id = c.id
          THEN [id |-> c.id, slug |-> c.slug, title |-> c.title, status |-> c.status]
          ELSE ps[i]]

\* publishPost from the FAQ data to its return, and the message handler
\* after it: faqData maps over blogData.faq.column1 (a TypeError when faq is
\* not a table object), then one PUT or one POST; on success moveFile starts
\* the rename and the result is posted
WritePost(f) ==
  /\ pc # "exited"
  /\ pub[f].pc = "write"
  /\ IF pub[f].blogData.faq # "table"
     THEN /\ pub' = [pub EXCEPT ![f] = Throw(@, "faqTypeError")]
          /\ UNCHANGED <<posts, writes, calls, faults>>
     ELSE LET c == Payload(f, pub[f])
          IN /\ calls' = [calls EXCEPT ![f] = Append(@, c.method)]
             /\ \E ok \in Outcomes :
                  /\ Fault(ok)
                  /\ writes' = Append(writes,
                       [call |-> c, ok |-> ok,
                        postId |-> IF ~ok THEN 0
                                   ELSE IF c.method = "POST" THEN Len(posts) + 1
                                   ELSE c.id])
                  /\ posts' = IF ok THEN ApplyWrite(posts, c) ELSE posts
                  /\ pub' = [pub EXCEPT ![f] =
                               IF ok
                               THEN [@ EXCEPT !.pc = "posted", !.success = TRUE,
                                              !.rename = "pending"]
                               ELSE Throw(@, "writeFailed")]
  /\ UNCHANGED <<walk, dirExists, drafts, intake, archive, coordVars, ext>>

\* moveFile: the callback of fs.rename, run by the publish worker
RenameDone(f) ==
  /\ pc # "exited"
  /\ pub[f].rename = "pending"
  /\ \E ok \in Outcomes :
       /\ Fault(ok)
       /\ intake' = (IF ok THEN intake \ {f} ELSE intake)
       /\ archive' = (IF ok THEN archive \cup {f} ELSE archive)
       /\ pub' = [pub EXCEPT ![f].rename = IF ok THEN "done" ELSE "failed"]
  /\ UNCHANGED <<walk, dirExists, drafts, coordVars, ext, posts, calls, writes>>

Next ==
  \/ Main
  \/ \E f \in FileNames : ExtractData(f)
  \/ \E f \in FileNames : ProcessFileSettled(f)
  \/ PublishSettled
  \/ \E f \in FileNames : AuthorLookup(f)
  \/ \E f \in FileNames : TagLookup(f)
  \/ \E f \in FileNames : CategoryLookup(f)
  \/ \E f \in FileNames : ExistenceLookup(f)
  \/ \E f \in FileNames : WritePost(f)
  \/ \E f \in FileNames : RenameDone(f)

Spec == Init /\ [][Next]_vars

SpecPool == InitPool /\ [][Next]_vars

\* a continuation of the coordinator that is ready to run on the main
\* thread's event loop
CoordinatorStep ==
  \/ Main
  \/ \E f \in FileNames : ProcessFileSettled(f)
  \/ PublishSettled

\* a step of a worker's message handler towards its result or its exit
WorkerStep ==
  \E f \in FileNames :
    \/ ExtractData(f)
    \/ AuthorLookup(f)
    \/ TagLookup(f)
    \/ CategoryLookup(f)
    \/ ExistenceLookup(f)
    \/ WritePost(f)

\* the run under fair scheduling: the event loop runs a ready continuation
\* and every worker eventually posts its result or exits
SpecLive ==
  InitLive /\ [][Next]_vars /\ WF_vars(CoordinatorStep) /\ WF_vars(WorkerStep)

\* ------------------------------------------------------------------------
\* Documents (the DOM that JSDOM builds) and text
\* ------------------------------------------------------------------------

\* A text is a sequence of tokens: words, the token ":" and the token " "
\* for a run of whitespace.  A node is a record of its tag ("#text" for a
\* text node), its text (text nodes only) and its child nodes; a node is
\* named by its path from document.body, the sequence of child positions.

Txt(t) == [tag |-> "#text", text |-> t, kids |-> <<>>]

El(tag, kids) == [tag |-> tag, text |-> <<>>, kids |-> kids]

\* null, where a node is expected
Null == <<0>>

RECURSIVE NodeAt(_, _)
NodeAt(root, path) ==
  IF path = <<>> THEN root ELSE NodeAt(root.kids[Head(path)], Tail(path))

\* node.nodeType === 1
IsElement(n) == n.tag # "#text"

RECURSIVE textContent(_), kidsText(_)
\* node.textContent
textContent(n) == IF n.tag = "#text" THEN n.text ELSE kidsText(n.kids)

kidsText(ks) ==
  IF ks = <<>> THEN <<>> ELSE textContent(Head(ks)) \o kidsText(Tail(ks))

RECURSIVE trimStart(_)
trimStart(t) ==
  IF t # <<>> /\ Head(t) = " " THEN trimStart(Tail(t)) ELSE t

RECURSIVE trimEnd(_)
trimEnd(t) ==
  IF t # <<>> /\ t[Len(t)] = " " THEN trimEnd(SubSeq(t, 1, Len(t) - 1)) ELSE t

\* String.prototype.trim
trim(t) == trimEnd(trimStart(t))

RECURSIVE collapse(_)
\* replace(/\s+/g, ' ')
collapse(t) ==
  IF Len(t) < 2 THEN t
  ELSE IF t[1] = " " /\ t[2] = " " THEN collapse(Tail(t))
  ELSE <<Head(t)>> \o collapse(Tail(t))

\* parsers.js parseText
parseText(t) == collapse(trim(t))

\* String.prototype.includes
includes(t, pat) ==
  \E i \in 1..(Len(t) - Len(pat) + 1) : SubSeq(t, i, i + Len(pat) - 1) = pat

RECURSIVE split(_)
\* String.prototype.split(':')
split(t) ==
  IF \A i \in 1..Len(t) : t[i] # ":" THEN <<t>>
  ELSE LET i == CHOOSE j \in 1..Len(t) :
                  t[j] = ":" /\ \A k \in 1..(j - 1) : t[k] # ":"
       IN <<SubSeq(t, 1, i - 1)>> \o split(SubSeq(t, i + 1, Len(t)))

\* node.lastElementChild, as a path
lastElementChild(n, path) ==
  IF \A i \in 1..Len(n.kids) : ~IsElement(n.kids[i]) THEN Null
  ELSE Append(path, CHOOSE i \in 1..Len(n.kids) :
                      /\ IsElement(n.kids[i])
                      /\ \A j \in (i + 1)..Len(n.kids) : ~IsElement(n.kids[j]))

\* a.contains(b), for paths
contains(a, b) ==
  b # Null /\ Len(a) <= Len(b) /\ SubSeq(b, 1, Len(a)) = a

\* the paths of the child nodes of the node at path, in document order
childPaths(n, path) == [i \in 1..Len(n.kids) |-> Append(path, i)]

RECURSIVE descendants(_, _), descendantsFrom(_, _, _)
\* the descendants of the node at path, in document order
descendants(n, path) == descendantsFrom(n, path, 1)

descendantsFrom(n, path, i) ==
  IF i > Len(n.kids) THEN <<>>
  ELSE <<Append(path, i)>> \o descendants(n.kids[i], Append(path, i))
       \o descendantsFrom(n, path, i + 1)

RECURSIVE SelectSeqBy(_, _, _)
\* the entries of a sequence of paths whose node has one of the tags
SelectSeqBy(root, paths, tags) ==
  IF paths = <<>> THEN <<>>
  ELSE (IF NodeAt(root, Head(paths)).tag \in tags THEN <<Head(paths)>> ELSE <<>>)
       \o SelectSeqBy(root, Tail(paths), tags)

\* node.querySelectorAll(selector), as paths in document order
querySelectorAll(root, path, tags) ==
  SelectSeqBy(root, descendants(NodeAt(root, path), path), tags)

\* ------------------------------------------------------------------------
\* Converters (util/parsers.js)
\* ------------------------------------------------------------------------

\* undefined, where a text is expected
Undefined == <<"#undefined">>

\* the property name a key text stands for (a key of one word is that word)
keyOf(t) == IF Len(t) = 1 THEN t[1] ELSE "#key"

\* parsePostTag: inList is the list scope the marker opens ("" for null),
\* parsedTag the pair of the key and value of a single post-tag (<<>> for null)
parsePostTag(n) ==
  LET postTagContent == split(textContent(n))
  IN
  IF n.tag = "span"
  THEN [inList |-> "", parsedTag |-> <<>>]
  ELSE IF postTagContent[1] = <<"post-tag">> /\ Len(postTagContent) >= 3
  THEN IF postTagContent[2] \in {<<"tags">>, <<"categories">>}
       THEN [inList |-> postTagContent[2][1], parsedTag |-> <<>>]
       ELSE [inList |-> "",
             parsedTag |-> <<keyOf(postTagContent[2]), parseText(postTagContent[3])>>]
  ELSE [inList |-> "", parsedTag |-> <<>>]

\* parseListBlock: the list record after the node at path was fed to it, and
\* the child nodes it marked as processed
parseListBlockMut(root, path, list) ==
  LET n == NodeAt(root, path)
      closes == n.tag = "li"
  IN [list |->
        [list EXCEPT
           !.items = IF n.tag = "li"
                     THEN Append(@, parseText(trim(textContent(n)))) ELSE @,
           !.listParsed = @ \/ closes,
           !.lastNode = IF n.tag = "ul" THEN lastElementChild(n, path) ELSE @],
      marked |-> IF closes THEN Range(childPaths(n, path)) ELSE {}]

parseListBlock(root, path, list) ==
  LET n == NodeAt(root, path)
      closes == n.tag = "li" /\ (path = list.lastNode \/ contains(path, list.lastNode))
  IN [list |->
        [list EXCEPT
           !.items = IF n.tag = "li"
                     THEN Append(@, parseText(trim(textContent(n)))) ELSE @,
           !.listParsed = @ \/ closes,
           !.lastNode = IF n.tag = "ul" THEN lastElementChild(n, path) ELSE @],
      marked |-> IF closes THEN Range(childPaths(n, path)) ELSE {}]

RECURSIVE processTableCellContent(_), cellKidsContent(_)
\* processTableCellContent: the rendered content of a cell
processTableCellContent(n) == cellKidsContent(n.kids)

cellKidsContent(ks) ==
  IF ks = <<>> THEN <<>>
  ELSE LET k == Head(ks)
       IN (IF ~IsElement(k) THEN parseText(k.text)
           ELSE IF k.tag \in {"ul", "ol", "li", "a", "strong", "b"}
           THEN <<"<", k.tag, ">">> \o processTableCellContent(k)
                \o <<"</", k.tag, ">">>
           ELSE processTableCellContent(k))
          \o cellKidsContent(Tail(ks))

\* the fields parseTableBlock gives a report that lacks them
parseReportDefaults ==
  [title |-> <<>>, column1 |-> <<>>, column1Hover |-> <<>>, column2 |-> <<>>,
   column2Hover |-> <<>>, heading1 |-> <<>>, heading2 |-> <<>>, lastNode |-> Null,
   currentLeftRow |-> TRUE, blockParsed |-> FALSE, numOfCols |-> 0]

\* the number of items a report column holds before cells go to its overflow
HoverAfter == 12

\* parseTableBlock, one cell: to the overflow of the current column when the
\* column holds more than 12 items and the content is not empty, else to the
\* column; then the column toggles when the table has several columns
pushCellMut(pr, content, type) ==
  LET currCol == IF pr.currentLeftRow THEN "column1" ELSE "column2"
      currColHover == IF pr.currentLeftRow THEN "column1Hover" ELSE "column2Hover"
      pushed == IF /\ type = "objectsReports"
                   /\ Len(pr[currCol]) > HoverAfter
                THEN [pr EXCEPT ![currColHover] = Append(@, content)]
                ELSE [pr EXCEPT ![currCol] = Append(@, content)]
  IN IF pr.numOfCols > 1
     THEN [pushed EXCEPT !.currentLeftRow = ~@]
     ELSE pushed

pushCell(pr, content, type) ==
  LET currCol == IF pr.currentLeftRow THEN "column1" ELSE "column2"
      currColHover == IF pr.currentLeftRow THEN "column1Hover" ELSE "column2Hover"
      pushed == IF /\ type = "objectsReports"
                   /\ Len(pr[currCol]) > HoverAfter
                   /\ trim(content) # <<>>
                THEN [pr EXCEPT ![currColHover] = Append(@, content)]
                ELSE [pr EXCEPT ![currCol] = Append(@, content)]
  IN IF pr.numOfCols > 1
     THEN [pushed EXCEPT !.currentLeftRow = ~@]
     ELSE pushed

RECURSIVE pushCells(_, _, _, _)
\* cells.forEach of the last row
pushCellsMut(root, pr, cells, type) == pr

pushCells(root, pr, cells, type) ==
  IF cells = <<>> THEN pr
  ELSE pushCells(root,
                 pushCell(pr, processTableCellContent(NodeAt(root, Head(cells))), type),
                 Tail(cells), type)

\* parseTableBlock: the report after the node at path was fed to it, the
\* nodes it marked as processed, and whether it threw
parseTableBlock(root, path, report, type) ==
  LET n == NodeAt(root, path)
      pr0 == report @@ parseReportDefaults
      pr == IF n.tag = "h2"
            THEN [pr0 EXCEPT !.title = parseText(trim(textContent(n)))]
            ELSE pr0
      cellText == trim(textContent(n))
  IN IF n.tag = "tbody"
     THEN [report |-> [pr EXCEPT !.lastNode = lastElementChild(n, path)],
           marked |-> {},
           threw |-> lastElementChild(n, path) = Null]
     ELSE IF n.tag = "tr" /\ pr.numOfCols = 0
     THEN [report |-> [pr EXCEPT !.numOfCols =
                         Len(querySelectorAll(root, path, {"td", "th"}))],
           marked |-> {}, threw |-> FALSE]
     ELSE IF /\ n.tag = "td"
             /\ (pr.heading1 = Undefined \/ pr.heading2 = Undefined)
             /\ type = "objectsReports"
     THEN [report |->
             IF pr.heading1 = Undefined
             THEN [pr EXCEPT !.heading1 =
                     IF cellText = <<>> THEN cellText ELSE parseText(cellText)]
             ELSE [pr EXCEPT !.heading2 =
                     IF cellText = <<>> THEN cellText ELSE parseText(cellText)],
           marked |-> {}, threw |-> FALSE]
     ELSE IF n.tag = "td" /\ type \in {"objectsReports", "faq"}
     THEN [report |-> pushCell(pr, processTableCellContent(n), type),
           marked |-> {}, threw |-> FALSE]
     ELSE IF path = pr.lastNode
     THEN LET cells == IF n.tag = "tr"
                       THEN querySelectorAll(root, path, {"td"}) ELSE <<>>
              filled == IF n.tag = "tr"
                        THEN pushCells(root, [pr EXCEPT !.currentLeftRow = TRUE],
                                       cells, type)
                        ELSE pr
          IN [report |-> [filled EXCEPT !.blockParsed = TRUE],
              marked |-> Range(cells), threw |-> FALSE]
     ELSE [report |-> pr, marked |-> {}, threw |-> FALSE]

\* ------------------------------------------------------------------------
\* The walk of extractData (workers/extract-input.js)
\* ------------------------------------------------------------------------

\* a list block before its scope was opened
emptyList == [items |-> <<>>, listParsed |-> FALSE, lastNode |-> Null]

\* extractData: let returnPostValues = {...}
returnPostValues ==
  [title |-> <<>>, author |-> <<>>, description |-> <<>>, schema |-> <<>>,
   tldr |-> emptyList, tags |-> emptyList, categories |-> emptyList,
   objectsReports |->
     [title |-> <<>>, heading1 |-> Undefined, column1 |-> <<>>,
      column1Hover |-> <<>>, heading2 |-> Undefined, column2 |-> <<>>,
      column2Hover |-> <<>>, lastNode |-> Null, currentLeftRow |-> TRUE,
      blockParsed |-> FALSE, numOfCols |-> 0],
   faq |->
     [title |-> <<>>, column1 |-> <<>>, column2 |-> <<>>, lastNode |-> Null,
      currentLeftRow |-> TRUE, blockParsed |-> FALSE, numOfCols |-> 0],
   postContent |-> <<>>]

\* the state of a walk: the result object, the two scope variables, the
\* nodes flagged _processed and _childNode, the branch every dispatched
\* node took, whether an error was thrown, and whether the media search of
\* the step answers
walkStart ==
  [rpv |-> returnPostValues, inList |-> "", inTable |-> "",
   processed |-> {}, childNode |-> {}, log |-> <<>>, threw |-> FALSE,
   transport |-> TRUE]

headingTags == {"h2", "h3", "h4"}

\* the tags of the generic content branch
genericTags ==
  {"p", "a", "h2", "h3", "h4", "ul", "ol", "li", "table", "tbody", "thead",
   "tfoot", "tr", "th", "td"}

\* the tags processChildNodes parses inline
inlineTags == {"p", "a", "span", "strong"}

\* what the generic content branch writes before the children of an element
genericOpen(tag) ==
  CASE tag \in headingTags -> <<"<!-- wp:heading -->", "<", tag, ">">>
    [] tag = "p" -> <<"<!-- wp:paragraph -->", "<", "p", ">">>
    [] tag \in {"ul", "ol"} -> <<"<!-- wp:list -->", "<", tag, ">">>
    [] tag = "li" -> <<"<!-- wp:list-item -->", "<", "li", ">">>
    [] tag = "table" -> <<"<!-- wp:table -->", "<", "table", ">">>
    [] tag \in {"td", "th"} -> <<"<", "td", ">">>
    [] OTHER -> <<"<", tag, ">">>

\* what the generic content branch writes after the children of an element
genericClose(tag) ==
  CASE tag \in headingTags -> <<"</", tag, ">", "<!-- /wp:heading -->">>
    [] tag = "p" -> <<"</", "p", ">", "<!-- /wp:paragraph -->">>
    [] tag \in {"ul", "ol"} -> <<"</", tag, ">", "<!-- /wp:list -->">>
    [] tag = "li" -> <<"</", "li", ">", "<!-- /wp:list-item -->">>
    [] tag = "table" -> <<"</", "table", ">", "<!-- /wp:table -->">>
    [] tag \in {"td", "th"} -> <<"</", "td", ">">>
    [] OTHER -> <<"</", tag, ">">>

\* item.replace(/"/g, '').replace(/'/g, '')
removeQuotes(t) == SelectSeq(t, LAMBDA x : x \notin {"\"", "'"})

RECURSIVE tldrItems(_, _)
\* the items of the tldr block, each behind its content_list_<index> key
tldrItems(items, index) ==
  IF index >= Len(items) THEN <<>>
  ELSE <<"content_list_item", ToString(index)>> \o removeQuotes(items[index + 1])
       \o tldrItems(items, index + 1)

\* the pre-rendered tldr block
tldrBlock(items) ==
  <<"<!-- wp:acf/hub-and-spoke-tldr">> \o tldrItems(items, 0)
  \o <<"content_list", ToString(Len(items)), "/-->">>

RECURSIVE joinTruthy(_)
\* column.filter(item => item).join('\r\n')
joinTruthy(col) ==
  IF col = <<>> THEN <<>>
  ELSE (IF Head(col) = <<>> THEN <<>> ELSE Head(col) \o <<"\r\n">>)
       \o joinTruthy(Tail(col))

RECURSIVE joinAll(_)
\* column.join(', ')
joinAll(col) ==
  IF col = <<>> THEN <<>> ELSE Head(col) \o <<", ">> \o joinAll(Tail(col))

\* the pre-rendered objects-reports block
objectsReportsBlock(r) ==
  <<"<!-- wp:acf/playbook-objects-reports">> \o r.title
  \o <<"field_67d1e5999642e">> \o (IF r.heading1 = Undefined THEN <<>> ELSE r.heading1)
  \o <<"field_67ca12053e1e8">> \o joinTruthy(r.column1)
  \o <<"field_67d1e5b896430">> \o (IF r.heading2 = Undefined THEN <<>> ELSE r.heading2)
  \o <<"field_67ca12053ed84">> \o joinTruthy(r.column2)
  \o <<"field_67ca12053e5e3">> \o joinAll(r.column1Hover)
  \o <<"field_67ca12053f169">> \o joinAll(r.column2Hover)
  \o <<"/-->">>

\* returnPostValues.postContent += fragment
emitMut(st, fragment) == [st EXCEPT !.rpv.postContent = fragment \o @]

emit(st, fragment) == [st EXCEPT !.rpv.postContent = @ \o fragment]

\* the branch of processNode that the node at path takes is recorded
logged(st, path, branch) ==
  [st EXCEPT !.log = Append(@, [node |-> path, branch |-> branch])]

\* processNode, open list scope: the node is fed to parseListBlock; on closure
\* a tldr block with items is flushed to the body and the scope is reset
listBranchMut(st, root, path) ==
  LET r == parseListBlock(root, path, st.rpv[st.inList])
      s1 == emit([st EXCEPT !.rpv[st.inList] = r.list, !.processed = @ \cup r.marked],
                 genericOpen(NodeAt(root, path).tag))
  IN IF r.list.listParsed
     THEN [(IF st.inList = "tldr" /\ Len(r.list.items) > 0
            THEN emit(s1, tldrBlock(r.list.items)) ELSE s1)
           EXCEPT !.inList = ""]
     ELSE s1

listBranch(st, root, path) ==
  LET r == parseListBlock(root, path, st.rpv[st.inList])
      s1 == [st EXCEPT !.rpv[st.inList] = r.list, !.processed = @ \cup r.marked]
  IN IF r.list.listParsed
     THEN [(IF st.inList = "tldr" /\ Len(r.list.items) > 0
            THEN emit(s1, tldrBlock(r.list.items)) ELSE s1)
           EXCEPT !.inList = ""]
     ELSE s1

\* processNode, open table scope: the node is fed to parseTableBlock; on
\* closure a report block is flushed to the body and the scope is reset
tableBranchMut(st, root, path) ==
  LET r == parseTableBlock(root, path, st.rpv[st.inTable], st.inTable)
      s1 == [st EXCEPT !.rpv[st.inTable] = r.report, !.processed = @ \cup r.marked]
  IN IF r.threw THEN [st EXCEPT !.threw = TRUE]
     ELSE IF r.report.blockParsed
     THEN IF st.inTable = "objectsReports"
          THEN emit(s1, objectsReportsBlock(r.report)) ELSE s1
     ELSE s1

tableBranch(st, root, path) ==
  LET r == parseTableBlock(root, path, st.rpv[st.inTable], st.inTable)
      s1 == [st EXCEPT !.rpv[st.inTable] = r.report, !.processed = @ \cup r.marked]
  IN IF r.threw THEN [st EXCEPT !.threw = TRUE]
     ELSE IF r.report.blockParsed
     THEN [(IF st.inTable = "objectsReports"
            THEN emit(s1, objectsReportsBlock(r.report)) ELSE s1)
           EXCEPT !.inTable = ""]
     ELSE s1

\* JSON.parse accepts the payload
validJsonMut(payload) == TRUE

validJson(payload) == "#invalid" \notin Range(payload)

\* JSON.stringify(JSON.parse(payload)): the payload without its whitespace
minified(payload) == SelectSeq(payload, LAMBDA x : x # " ")

\* processNode, post-tag marker
postTagBranch(st, n) ==
  LET tc == textContent(n)
      pt == parsePostTag(n)
      s1 == IF pt.inList # "" THEN [st EXCEPT !.inList = pt.inList] ELSE st
      schemaTag == <<"post-tag", ":", "schema", ":">>
      matches == {i \in 1..Len(tc) :
                    /\ i + 4 <= Len(tc)
                    /\ SubSeq(tc, i, i + 3) = schemaTag
                    /\ tc[i + 4] = "{"
                    /\ tc[Len(tc)] = "}"}
      payload == trim(SubSeq(tc, (CHOOSE i \in matches : \A j \in matches : i <= j) + 4,
                             Len(tc)))
  IN IF n.tag \notin headingTags THEN st
     ELSE IF includes(tc, schemaTag)
     THEN IF matches = {} THEN s1
          ELSE [s1 EXCEPT !.rpv.schema =
                  IF validJson(payload) THEN minified(payload) ELSE <<>>]
     ELSE IF pt.parsedTag # <<>>
     THEN [s1 EXCEPT !.rpv = (pt.parsedTag[1] :> pt.parsedTag[2]) @@ @]
     ELSE s1

\* processNode, content:image marker with parseContentImageTag
imageBranch(st, n) ==
  LET imageTagContent == split(textContent(n))
      imageName == trim(imageTagContent[3])
      imageId == MediaId(keyOf(imageName))
  IN IF n.tag \notin headingTags THEN st
     ELSE IF imageTagContent[1] = <<"content">> /\ Len(imageTagContent) >= 3
     THEN IF st.transport /\ imageId # 0
          THEN emit(st, <<"<!-- wp:image", ToString(imageId), "-->",
                          "<!-- /wp:image -->">>)
          ELSE [st EXCEPT !.threw = TRUE]
     ELSE st

\* processNode, block:youtube-embed marker
youtubeBranch(st, n) ==
  LET tc == textContent(n)
      matches == {i \in 1..Len(tc) :
                    /\ i + 6 <= Len(tc)
                    /\ SubSeq(tc, i, i + 3) = <<"block", ":", "youtube-embed", ":">>
                    /\ tc[i + 4] \in {"http", "https"}
                    /\ tc[i + 5] = ":"
                    /\ tc[i + 6] # " "}
      first == CHOOSE i \in matches : \A j \in matches : i <= j
  IN IF n.tag \in headingTags /\ matches # {}
     THEN emit(st, <<"<!-- wp:embed -->">> \o SubSeq(tc, first + 4, first + 6)
                   \o <<"<!-- /wp:embed -->">>)
     ELSE st

\* the branch of processNode's dispatch chain that an element takes
branchOfMut(st, n) ==
  LET tc == textContent(n)
  IN IF includes(tc, <<"block", ":", "objects-reports">>) THEN "objects-reports"
     ELSE IF includes(tc, <<"block", ":", "faq">>) THEN "faq"
     ELSE IF st.inList # "" THEN "list"
     ELSE IF st.inTable # "" THEN "table"
     ELSE IF n.tag = "h1" THEN "h1"
     ELSE IF includes(tc, <<"post-tag", ":">>) THEN "post-tag"
     ELSE IF includes(tc, <<"content", ":", "image">>) THEN "image"
     ELSE IF includes(tc, <<"block", ":", "tldr">>) THEN "tldr"
     ELSE IF includes(tc, <<"block", ":", "youtube-embed", ":">>) THEN "youtube"
     ELSE IF n.tag \in genericTags THEN "generic"
     ELSE "none"

branchOf(st, n) ==
  LET tc == textContent(n)
  IN IF st.inList # "" THEN "list"
     ELSE IF st.inTable # "" THEN "table"
     ELSE IF n.tag = "h1" THEN "h1"
     ELSE IF includes(tc, <<"post-tag", ":">>) THEN "post-tag"
     ELSE IF includes(tc, <<"content", ":", "image">>) THEN "image"
     ELSE IF includes(tc, <<"block", ":", "tldr">>) THEN "tldr"
     ELSE IF includes(tc, <<"block", ":", "objects-reports">>) THEN "objects-reports"
     ELSE IF includes(tc, <<"block", ":", "faq">>) THEN "faq"
     ELSE IF includes(tc, <<"block", ":", "youtube-embed", ":">>) THEN "youtube"
     ELSE IF n.tag \in genericTags THEN "generic"
     ELSE "none"

RECURSIVE processNode(_, _, _), walkKids(_, _, _, _), dispatch(_, _, _)
RECURSIVE processChildNodes(_, _, _), childLoop(_, _, _, _)
RECURSIVE genericBranch(_, _, _), inlineBranch(_, _, _)

\* processNode on the node at path: the state after it, the parsedText of the
\* object it returned, and whether it returned undefined.  Once an error was
\* thrown nothing else runs.
processNodeMut(st, root, path) ==
  IF st.threw
  THEN [st |-> st, parsedText |-> <<>>, undef |-> TRUE]
  ELSE LET n == NodeAt(root, path)
           s1 == [st EXCEPT !.processed = @ \cup {path}]
       IN IF IsElement(n) /\ n.tag # "body" /\ path \notin st.childNode
          THEN [st |-> walkKids(dispatch(logged(s1, path, branchOf(s1, n)), root, path),
                                root, path, 1),
                parsedText |-> <<>>, undef |-> TRUE]
          ELSE IF IsElement(n) /\ path \in st.childNode /\ n.tag \in inlineTags
          THEN inlineBranch(logged(s1, path, "inline"), root, path)
          ELSE [st |-> walkKids(logged(s1, path, IF IsElement(n) THEN "none" ELSE "text"),
                                root, path, 1),
                parsedText |-> <<>>, undef |-> TRUE]

processNode(st, root, path) ==
  IF st.threw \/ path \in st.processed
  THEN [st |-> st, parsedText |-> <<>>, undef |-> TRUE]
  ELSE LET n == NodeAt(root, path)
           s1 == [st EXCEPT !.processed = @ \cup {path}]
       IN IF IsElement(n) /\ n.tag # "body" /\ path \notin st.childNode
          THEN [st |-> walkKids(dispatch(logged(s1, path, branchOf(s1, n)), root, path),
                                root, path, 1),
                parsedText |-> <<>>, undef |-> TRUE]
          ELSE IF IsElement(n) /\ path \in st.childNode /\ n.tag \in inlineTags
          THEN inlineBranch(logged(s1, path, "inline"), root, path)
          ELSE [st |-> walkKids(logged(s1, path, IF IsElement(n) THEN "none" ELSE "text"),
                                root, path, 1),
                parsedText |-> <<>>, undef |-> TRUE]

\* processNode, the loop over node.childNodes after the dispatch
walkKids(st, root, path, i) ==
  IF i > Len(NodeAt(root, path).kids) THEN st
  ELSE walkKids(processNode(st, root, Append(path, i)).st, root, path, i + 1)

\* processNode, the dispatch chain for an element that is not an inline child
dispatch(st, root, path) ==
  LET n == NodeAt(root, path)
      branch == branchOf(st, n)
  IN CASE branch = "list" -> listBranch(st, root, path)
       [] branch = "table" -> tableBranch(st, root, path)
       [] branch = "h1" ->
            [st EXCEPT !.rpv.title = parseText(textContent(n)),
                       !.processed = @ \cup Range(childPaths(n, path))]
       [] branch = "post-tag" -> postTagBranch(st, n)
       [] branch = "image" -> imageBranch(st, n)
       [] branch = "tldr" ->
            IF n.tag \in headingTags THEN [st EXCEPT !.inList = "tldr"] ELSE st
       [] branch = "objects-reports" ->
            IF n.tag \in headingTags THEN [st EXCEPT !.inTable = "objectsReports"] ELSE st
       [] branch = "faq" ->
            IF n.tag \in headingTags THEN [st EXCEPT !.inTable = "faq"] ELSE st
       [] branch = "youtube" -> youtubeBranch(st, n)
       [] branch = "generic" -> genericBranch(st, root, path)
       [] OTHER -> st

\* processChildNodes: the state after it and the parsedText it returned
processChildNodes(st, root, path) ==
  LET n == NodeAt(root, path)
  IN IF Len(n.kids) > 0
     THEN childLoop([st |-> st, parsedText |-> <<>>], root, path, 1)
     ELSE [st |-> st, parsedText |-> parseText(textContent(n))]

\* processChildNodes, the loop over node.childNodes: an inline child is
\* flagged _childNode and its parsedText is destructured from what
\* processNode returned (a TypeError when that is undefined), another
\* element is processed as a block, a text node is rendered and flagged
childLoop(acc, root, path, i) ==
  LET n == NodeAt(root, path)
      c == Append(path, i)
      k == n.kids[i]
      r == processNode([acc.st EXCEPT !.childNode = @ \cup {c}], root, c)
  IN IF i > Len(n.kids) \/ acc.st.threw THEN acc
     ELSE IF IsElement(k) /\ k.tag \in inlineTags
     THEN childLoop([st |-> IF r.undef THEN [r.st EXCEPT !.threw = TRUE] ELSE r.st,
                     parsedText |-> acc.parsedText \o r.parsedText],
                    root, path, i + 1)
     ELSE IF IsElement(k)
     THEN childLoop([st |-> processNode(acc.st, root, c).st,
                     parsedText |-> acc.parsedText],
                    root, path, i + 1)
     ELSE childLoop([st |-> [acc.st EXCEPT !.processed = @ \cup {c}],
                     parsedText |-> acc.parsedText \o parseText(k.text)],
                    root, path, i + 1)

\* processNode, generic content: the wrapper of the element around what its
\* children wrote and returned
genericBranch(st, root, path) ==
  LET n == NodeAt(root, path)
      r == processChildNodes(emit(st, genericOpen(n.tag)), root, path)
  IN IF n.tag = "a"
     THEN emit(st, <<"<!-- wp:paragraph -->", "<", "p", ">", "<", "a", ">">>
                   \o parseText(trim(textContent(n)))
                   \o <<"</", "a", ">", "</", "p", ">", "<!-- /wp:paragraph -->">>)
     ELSE IF r.st.threw THEN r.st
     ELSE emit(emit(r.st, r.parsedText), genericClose(n.tag))

\* processNode, inline child: the inline html is returned to the parent; the
\* span case reads the undeclared name parsedText, a ReferenceError
inlineBranch(st, root, path) ==
  LET n == NodeAt(root, path)
      r == processChildNodes(st, root, path)
  IN IF n.tag = "span"
     THEN [st |-> [emit(r.st, r.parsedText) EXCEPT !.threw = TRUE],
           parsedText |-> <<>>, undef |-> TRUE]
     ELSE [st |-> r.st,
           parsedText |->
             IF n.tag = "p" THEN <<"<", "p", ">">> \o r.parsedText \o <<"</", "p", ">">>
             ELSE <<" ", "<", n.tag, ">">> \o r.parsedText \o <<"</", n.tag, ">", " ">>,
           undef |-> FALSE]

\* ------------------------------------------------------------------------
\* Documents to extract
\* ------------------------------------------------------------------------

\* largest number of elements directly under document.body
MaxBlocks == 3

\* a heading of the given level with the given text
Heading(tag, t) == El(tag, <<Txt(t)>>)

\* a list item with the given text
Li(t) == El("li", <<Txt(t)>>)

\* a table row of two data cells
Row(a, b) == El("tr", <<El("td", <<Txt(a)>>), El("td", <<Txt(b)>>)>>)

\* <ul><li>A</li><li>B</li><li>C</li></ul>
ListABC == El("ul", <<Li(<<"A">>), Li(<<"B">>), Li(<<"C">>)>>)

\* the same list written with line breaks and inline markup in an item
ListABCMarkup ==
  El("ul", <<Txt(<<" ">>), Li(<<" ", "A", " ">>), Txt(<<" ">>),
             El("li", <<Txt(<<"B">>), El("strong", <<Txt(<<"b">>)>>)>>),
             Txt(<<" ">>), Li(<<"C">>), Txt(<<" ">>)>>)

\* <ul><li>A<ul><li>a1</li></ul></li><li>B</li></ul>
ListNested ==
  El("ul", <<El("li", <<Txt(<<"A">>), El("ul", <<Li(<<"a1">>)>>)>>), Li(<<"B">>)>>)

\* a table of a header row and two rows of two cells
Table2 ==
  El("table", <<El("tbody", <<Row(<<"H1">>, <<"H2">>), Row(<<"q1">>, <<"a1">>),
                               Row(<<"q2">>, <<"a2">>)>>)>>)

\* the elements a document is made of
Blocks ==
  { Heading("h2", <<"block", ":", "tldr">>),
    Heading("h3", <<"post-tag", ":", "tags", ":">>),
    Heading("h2", <<"block", ":", "faq">>),
    Heading("h2", <<"block", ":", "objects-reports">>),
    Heading("h4", <<"content", ":", "image", ":", "img1">>),
    Heading("h2", <<"Intro">>),
    El("p", <<Txt(<<"x">>)>>),
    ListABC,
    ListABCMarkup,
    ListNested,
    Table2 }

\* document.body with the given elements
Body(blocks) == El("body", blocks)

\* the documents a draft file may hold
Documents ==
  {Body(blocks) : blocks \in UNION {[1..k -> Blocks] : k \in 1..MaxBlocks}}

\* extractData after the file was read and parsed: processNode(document.body)
\* has flagged the body and is about to walk its child nodes; the coordinator
\* is not part of this run
InitExtract ==
  /\ dirExists = TRUE
  /\ intake = {}
  /\ drafts = [f \in FileNames |-> NoDraft]
  /\ posts = <<>>
  /\ faults = 0
  /\ InitRun
  /\ walk \in {[doc |-> d, next |-> 1,
               st |-> logged([walkStart EXCEPT !.processed = {<<>>}], <<>>, "none")] :
              d \in Documents}

\* one iteration of the loop of processNode(document.body) over its child
\* nodes: await processNode(childNode), with every call it makes; a media
\* search the element needs answers or fails
ProcessBodyChild ==
  /\ walk.doc # <<>>
  /\ walk.next <= Len(walk.doc.kids)
  /\ ~walk.st.threw
  /\ \E transport \in
          (IF includes(textContent(walk.doc.kids[walk.next]), <<"content", ":", "image">>)
           THEN BOOLEAN ELSE {TRUE}) :
       walk' = [walk EXCEPT
                  !.next = @ + 1,
                  !.st = [processNode([walk.st EXCEPT !.transport = transport],
                                      walk.doc, <<walk.next>>).st
                          EXCEPT !.transport = TRUE]]
  /\ UNCHANGED <<dirExists, drafts, intake, archive, coordVars, ext, pub, posts,
                 calls, writes, faults>>

\* the walk of one document by extractData
SpecExtract == InitExtract /\ [][ProcessBodyChild]_vars

\* largest number of rows in the body of a table
MaxRows == 16

\* a data cell with the given text
Td(t) == El("td", <<Txt(t)>>)

\* row i of a table of two columns; the cells of the blank row hold only
\* whitespace
TableRow(i, blank) ==
  IF i = blank THEN El("tr", <<Td(<<" ">>), Td(<<" ">>)>>)
  ELSE El("tr", <<Td(<<"L", ToString(i)>>), Td(<<"R", ToString(i)>>)>>)

\* <thead><tr><th>H1</th><th>H2</th></tr></thead>
TableHead ==
  El("thead", <<El("tr", <<El("th", <<Txt(<<"H1">>)>>), El("th", <<Txt(<<"H2">>)>>)>>)>>)

\* a table whose body has n rows, with or without a head
TableOf(n, blank, head) ==
  El("table", (IF head THEN <<TableHead>> ELSE <<>>)
              \o <<El("tbody", [i \in 1..n |-> TableRow(i, blank)])>>)

\* the table markers
TableMarkers ==
  { Heading("h2", <<"block", ":", "faq">>),
    Heading("h2", <<"block", ":", "objects-reports">>) }

\* the documents of a table marker, a table and a paragraph after it
TableDocuments ==
  { Body(<<marker, TableOf(n, blank, head), El("p", <<Txt(<<"x">>)>>)>>) :
      marker \in TableMarkers,
      n \in 1..MaxRows, blank \in 0..MaxRows, head \in BOOLEAN }

\* extractData on a document that holds a table block
InitTable ==
  /\ dirExists = TRUE
  /\ intake = {}
  /\ drafts = [f \in FileNames |-> NoDraft]
  /\ posts = <<>>
  /\ faults = 0
  /\ InitRun
  /\ walk \in {[doc |-> d, next |-> 1,
               st |-> logged([walkStart EXCEPT !.processed = {<<>>}], <<>>, "none")] :
              d \in TableDocuments}

\* the walk of one document that holds a table block
SpecTable == InitTable /\ [][ProcessBodyChild]_vars

\* post-tag:schema: followed by the given payload, as a heading
SchemaMarker(payload) ==
  Heading("h2", <<"post-tag", ":", "schema", ":">> \o payload)

\* the elements of a document with title and schema markers: two h1, the
\* second with inline markup; a schema marker with a JSON payload, one whose
\* payload is in braces but is not JSON, one whose payload has no braces; a
\* tldr marker, a list, a heading and a paragraph
MetaBlocks ==
  { Heading("h1", <<"First">>),
    El("h1", <<Txt(<<" ", "Second", " ">>), El("strong", <<Txt(<<"x">>)>>)>>),
    SchemaMarker(<<"{", " ", "a", " ", "}">>),
    SchemaMarker(<<"{", "#invalid", "}">>),
    SchemaMarker(<<"oops">>),
    Heading("h2", <<"block", ":", "tldr">>),
    ListABC,
    Heading("h2", <<"Intro">>),
    El("p", <<Txt(<<"x">>)>>) }

\* the documents made of these elements
MetaDocuments ==
  {Body(blocks) : blocks \in UNION {[1..k -> MetaBlocks] : k \in 1..MaxBlocks}}

\* extractData on a document with title and schema markers
InitMeta ==
  /\ dirExists = TRUE
  /\ intake = {}
  /\ drafts = [f \in FileNames |-> NoDraft]
  /\ posts = <<>>
  /\ faults = 0
  /\ InitRun
  /\ walk \in {[doc |-> d, next |-> 1,
               st |-> logged([walkStart EXCEPT !.processed = {<<>>}], <<>>, "none")] :
              d \in MetaDocuments}

\* the walk of one document with title and schema markers
SpecMeta == InitMeta /\ [][ProcessBodyChild]_vars

\* <ul><li>D</li><li>E</li></ul>
ListDE == El("ul", <<Li(<<"D">>), Li(<<"E">>)>>)

\* the headings that open a list scope
ListMarkers ==
  { Heading("h2", <<"block", ":", "tldr">>),
    Heading("h3", <<"post-tag", ":", "tags", ":">>),
    Heading("h3", <<"post-tag", ":", "categories", ":">>) }

\* the documents of two list markers, each followed by a list of its own
TwiceDocuments ==
  { Body(<<m1, l1, m2, l2>>) :
      m1 \in ListMarkers, l1 \in {ListABC, ListABCMarkup, ListDE},
      m2 \in ListMarkers, l2 \in {ListABC, ListABCMarkup, ListDE} }

\* extractData on a document that opens two list scopes
InitTwice ==
  /\ dirExists = TRUE
  /\ intake = {}
  /\ drafts = [f \in FileNames |-> NoDraft]
  /\ posts = <<>>
  /\ faults = 0
  /\ InitRun
  /\ walk \in {[doc |-> d, next |-> 1,
               st |-> logged([walkStart EXCEPT !.processed = {<<>>}], <<>>, "none")] :
              d \in TwiceDocuments}

\* the walk of one document that opens two list scopes
SpecTwice == InitTwice /\ [][ProcessBodyChild]_vars

\* post-tag:<key>:<value>, as a heading
PostTag(key, value) ==
  Heading("h3", <<"post-tag", ":", key, ":">> \o value)

\* the elements of a document with post-tag markers: markers for the
\* metadata keys author and description and for the keys postContent, tldr
\* and faq; an h1, a heading and a paragraph
TagBlocks ==
  { PostTag("author", <<"Bob">>),
    PostTag("description", <<"about", " ", "it">>),
    PostTag("postContent", <<"y">>),
    PostTag("tldr", <<"z">>),
    PostTag("faq", <<"q">>),
    Heading("h1", <<"First">>),
    Heading("h2", <<"Intro">>),
    El("p", <<Txt(<<"x">>)>>) }

\* the documents made of these elements
TagDocuments ==
  {Body(blocks) : blocks \in UNION {[1..k -> TagBlocks] : k \in 1..MaxBlocks}}

\* extractData on a document with post-tag markers
InitTags ==
  /\ dirExists = TRUE
  /\ intake = {}
  /\ drafts = [f \in FileNames |-> NoDraft]
  /\ posts = <<>>
  /\ faults = 0
  /\ InitRun
  /\ walk \in {[doc |-> d, next |-> 1,
               st |-> logged([walkStart EXCEPT !.processed = {<<>>}], <<>>, "none")] :
              d \in TagDocuments}

\* the walk of one document with post-tag markers
SpecTags == InitTags /\ [][ProcessBodyChild]_vars

\* <span>s</span>
SpanS == El("span", <<Txt(<<"s">>)>>)

\* the elements of a document with inline markup: a paragraph, a heading
\* and a list item that hold a span; paragraphs that hold bold text and a
\* link; a plain heading and a plain paragraph
InlineBlocks ==
  { El("p", <<Txt(<<"x", " ">>), SpanS>>),
    El("h2", <<SpanS>>),
    El("ul", <<El("li", <<Txt(<<"i", " ">>), SpanS>>)>>),
    El("p", <<Txt(<<"x", " ">>), El("strong", <<Txt(<<"b">>)>>)>>),
    El("p", <<El("a", <<Txt(<<"link">>)>>)>>),
    Heading("h2", <<"Intro">>),
    El("p", <<Txt(<<"x">>)>>) }

\* the documents made of these elements
InlineDocuments ==
  {Body(blocks) : blocks \in UNION {[1..k -> InlineBlocks] : k \in 1..MaxBlocks}}

\* extractData on a document with inline markup
InitInline ==
  /\ dirExists = TRUE
  /\ intake = {}
  /\ drafts = [f \in FileNames |-> NoDraft]
  /\ posts = <<>>
  /\ faults = 0
  /\ InitRun
  /\ walk \in {[doc |-> d, next |-> 1,
               st |-> logged([walkStart EXCEPT !.processed = {<<>>}], <<>>, "none")] :
              d \in InlineDocuments}

\* the walk of one document with inline markup
SpecInline == InitInline /\ [][ProcessBodyChild]_vars

\* ------------------------------------------------------------------------
\* Properties
\* ------------------------------------------------------------------------

\* the files the run discovered
Discovered == {f \in FileNames : drafts[f] # NoDraft}

\* the publish operation of f (resolution, existence lookup, write) is running
InFlight(f) == pub[f].pc \in {"author", "tags", "categories", "exists", "write"}

\* the write calls issued for file f
WritesOf(f) == {i \in 1..Len(writes) : writes[i].call.file = f}

\* publishPost of f got past the author, tag and category lookups
ResolutionSucceeded(f) ==
  \/ pub[f].pc \in {"exists", "write", "posted"}
  \/ pub[f].pc = "exited" /\ pub[f].err \in {"faqTypeError", "writeFailed"}

\* the publish of f has ended, with a result or with a failure
PublishEnded(f) == pub[f].pc \in {"posted", "exited"}

\* C1: when the same parsed post (same non-empty slug) is published twice
\* and the first publish created a record, the write of the second publish
\* is an update (PUT) addressed to the id of the created record; no second
\* create is issued.
C1_SecondPublishUpdates ==
  \A i, j \in 1..Len(writes) :
    ( /\ i < j
      /\ writes[i].ok
      /\ writes[i].call.method = "POST"
      /\ writes[i].call.slug # ""
      /\ pub[writes[j].call.file].blogData = pub[writes[i].call.file].blogData )
    => /\ writes[j].call.method = "PUT"
       /\ writes[j].call.id = writes[i].postId

\* C2: at most one publish operation is in flight at any moment, and the
\* publish of a document of the extracted set has started only if the
\* publish of every document before it has posted its result or failed.
C2_OnePublishInFlight ==
  /\ Cardinality({f \in FileNames : InFlight(f)}) <= 1
  /\ \A k \in 1..Len(extractedFiles) :
       pub[extractedFiles[k].fileName].pc # "idle"
       => \A j \in 1..(k - 1) :
            pub[extractedFiles[j].fileName].pc \in {"posted", "exited"}

\* the second document's publish is in flight after the first one's failed
C2_Witness ==
  /\ Len(extractedFiles) >= 2
  /\ pubIdx = 2
  /\ InFlight(extractedFiles[2].fileName)
  /\ pub[extractedFiles[1].fileName].pc = "exited"

\* C3: publishSequentially is called at most once; whenever it has been
\* called or a publish worker exists, the queue is empty, no extraction is in
\* flight and every discovered file's extraction has been settled; and once
\* every extraction of a non-empty batch is settled it has been called
\* exactly once.
C3_PhaseTwoAfterExtraction ==
  /\ phase2Starts <= 1
  /\ (phase2Starts > 0 \/ \E f \in FileNames : pub[f].pc # "idle")
     => /\ processingQueue = <<>>
        /\ activeWorkers = 0
        /\ \A f \in Discovered : ext[f].pc \in {"posted", "exited"} /\ ext[f].handled
  /\ ( /\ Discovered # {}
       /\ pc # "start"
       /\ \A f \in Discovered : ext[f].handled )
     => phase2Starts = 1

\* phase 2 runs after a batch larger than the pool was extracted, with one
\* extraction failed and another one succeeded
C3_Witness ==
  /\ phase2Starts = 1
  /\ Cardinality(Discovered) > maxConcurrentWorkers
  /\ \E f \in Discovered : ext[f].pc = "exited"
  /\ \E g \in Discovered : InFlight(g)

\* C4: every create (POST) the publisher issues carries status "draft".
C4_CreateIsDraft ==
  \A i \in 1..Len(writes) :
    writes[i].call.method = "POST" => writes[i].call.status = "draft"

\* a create was issued and accepted while the CMS holds a published record
C4_Witness ==
  \E i \in 1..Len(writes) :
    /\ writes[i].call.method = "POST"
    /\ writes[i].ok
    /\ \E k \in 1..Len(posts) : posts[k].status = "publish"

\* C5: every update (PUT) carries the status and the id of the record the
\* existence lookup returned, and no step changes the status of a record
\* the CMS already holds.
C5_UpdateKeepsStatus ==
  [][ /\ \A k \in 1..Len(posts) : posts'[k].status = posts[k].status
      /\ \A i \in 1..Len(writes') :
           writes'[i].call.method = "PUT"
           => /\ writes'[i].call.status = pub'[writes'[i].call.file].existingPost.status
              /\ writes'[i].call.id = pub'[writes'[i].call.file].existingPost.id ]_vars

\* an accepted update of a record that is not a draft
C5_Witness ==
  \E i \in 1..Len(writes) :
    /\ writes[i].call.method = "PUT"
    /\ writes[i].ok
    /\ writes[i].call.status \in {"publish", "private"}

\* C6: a publishPost invocation issues at most one write call, and exactly
\* one once it has ended after the author and term resolution succeeded.
C6_ExactlyOneWrite ==
  \A f \in FileNames :
    /\ Cardinality(WritesOf(f)) <= 1
    /\ (PublishEnded(f) /\ ResolutionSucceeded(f)) => Cardinality(WritesOf(f)) = 1

\* C7: a write for a document is preceded by an existence lookup with any
\* status: by slug when the parsed post has a slug, by title when it has none.
C7_LookupBeforeWrite ==
  \A f \in FileNames :
    WritesOf(f) # {}
    => IF pub[f].blogData.url # ""
       THEN "GET posts slug status=any" \in Range(calls[f])
       ELSE "GET posts search status=any" \in Range(calls[f])

\* C8: a document whose image search found nothing or failed is not in the
\* extracted set, gets no publish worker and no write call; when the run has
\* ended every other document whose extraction succeeded has been through
\* publishPost, with its write call issued when its resolution succeeded and
\* its payload could be built.
C8_ImageFailureIsolated ==
  /\ \A f \in FileNames :
       ( /\ ext[f].pc \notin {"idle", "running"}
         /\ ext[f].doc.image # ""
         /\ (MediaId(ext[f].doc.image) = 0 \/ ext[f].err = "imageTransport") )
       => /\ ext[f].pc = "exited"
          /\ \A k \in 1..Len(extractedFiles) : extractedFiles[k].fileName # f
          /\ pub[f].pc = "idle"
          /\ WritesOf(f) = {}
          /\ calls[f] = <<"GET media">>
  /\ (pc = "exited" /\ exitCode = 0)
     => \A g \in Discovered :
          ext[g].pc = "posted"
          => /\ PublishEnded(g)
             /\ (ResolutionSucceeded(g) /\ pub[g].blogData.faq = "table")
                => Cardinality(WritesOf(g)) = 1

\* the run ended: one document failed on its image, another was published
C8_Witness ==
  /\ pc = "exited"
  /\ exitCode = 0
  /\ \E f \in Discovered : ext[f].err = "imageNotFound"
  /\ \E g \in Discovered : pub[g].success

\* C9: when the author lookup returned no match or failed, publishPost made
\* no term lookup, no existence lookup and no write, the worker ended
\* without a result and the file is still in the intake directory.
C9_AuthorFailureAborts ==
  \A f \in FileNames :
    ( /\ pub[f].pc \notin {"idle", "author"}
      /\ (UserId(pub[f].blogData.author) = 0 \/ pub[f].err = "authorTransport") )
    => /\ pub[f].pc = "exited"
       /\ ~pub[f].success
       /\ Range(calls[f]) \subseteq {"GET media", "GET users"}
       /\ WritesOf(f) = {}
       /\ pub[f].rename = "none"
       /\ f \in intake
       /\ f \notin archive

\* the run ended after the author of a document was not found
C9_Witness ==
  /\ pc = "exited"
  /\ \E f \in Discovered : pub[f].err = "authorNotFound"

\* C10: a document with a tag or category that has no match is still
\* written once its publish has ended (author found, no failed call), and
\* the write carries the ids of exactly the terms that did resolve.
C10_UnresolvedTermDropped ==
  \A f \in FileNames :
    ( /\ PublishEnded(f)
      /\ pub[f].authorId # 0
      /\ pub[f].blogData.faq = "table"
      /\ pub[f].err \notin {"termTransport", "categoryTransport"}
      /\ \/ \E i \in 1..Len(pub[f].blogData.tags) : TagId(pub[f].blogData.tags[i]) = 0
         \/ \E i \in 1..Len(pub[f].blogData.categories) :
               CategoryId(pub[f].blogData.categories[i]) = 0 )
    => \E i \in WritesOf(f) :
         /\ writes[i].call.playbook_tag = FilterBoolean(MapIds("tag", pub[f].blogData.tags))
         /\ writes[i].call.playbook_category =
              FilterBoolean(MapIds("category", pub[f].blogData.categories))

\* the entries of the extracted set that name file f
ExtractedAs(f) == {k \in 1..Len(extractedFiles) : extractedFiles[k].fileName = f}

\* the extraction or the publish of f failed
Failed(f) == ext[f].pc = "exited" \/ pub[f].pc = "exited"

\* C11: a file is in the archive directory, or has a rename started, only
\* after the write call of its own publish returned successfully; a file
\* whose extraction or publish failed has no rename started, is not in the
\* archive directory and is still in the intake directory.
C11_MoveOnlyAfterWrite ==
  \A f \in Discovered :
    /\ (f \in archive \/ pub[f].rename # "none")
       => /\ pub[f].success
          /\ \E i \in WritesOf(f) : writes[i].ok
    /\ Failed(f)
       => /\ pub[f].rename = "none"
          /\ f \in intake
          /\ f \notin archive

\* the run ended with one file archived after its publish and another file,
\* whose extraction or publish failed, left in the intake directory
C11_Witness ==
  /\ pc = "exited"
  /\ \E f \in Discovered : f \in archive /\ f \notin intake
  /\ \E g \in Discovered : Failed(g) /\ g \in intake

\* C12: when the coordinator has exited the process, the rename of every
\* document whose publish succeeded has completed.
C12_RenameBeforeExit ==
  pc = "exited"
  => \A f \in Discovered : pub[f].success => pub[f].rename # "pending"

\* C13: the number of extractions in flight (workers started whose
\* processFile has not run its finally block) is the coordinator's counter
\* and is between 0 and 4.
C13_PoolBound ==
  /\ activeWorkers >= 0
  /\ activeWorkers <= 4
  /\ Cardinality({f \in FileNames : ext[f].pc # "idle" /\ ~ext[f].handled}) = activeWorkers
  /\ Cardinality({f \in FileNames : ext[f].pc = "running"}) <= 4

\* four extractions are in flight after a failed extraction was handled and
\* a queued file was started in its place
C13_Witness ==
  /\ activeWorkers = 4
  /\ Cardinality(Discovered) > 4
  /\ \E f \in Discovered : ext[f].pc = "exited" /\ ext[f].handled
  /\ \A f \in Discovered : ext[f].pc # "idle"

\* C14: a file whose extraction failed is not in the extracted set and gets
\* no publish worker; while files are queued an extraction is in flight, and
\* once every extraction of a non-empty batch is handled Phase 2 has started.
C14_ExtractionFailureDropped ==
  /\ \A f \in FileNames :
       ext[f].pc = "exited" => ExtractedAs(f) = {} /\ pub[f].pc = "idle"
  /\ processingQueue # <<>> => activeWorkers > 0
  /\ pc = "extracting" => activeWorkers > 0
  /\ (Discovered # {} /\ pc # "start" /\ \A f \in Discovered : ext[f].handled)
     => phase2Starts = 1 /\ pc \in {"publishing", "exited"}

\* Phase 2 started after an extraction failure was handled while files were
\* still queued behind it, and a file that was queued is being published
C14_Witness ==
  /\ phase2Starts = 1
  /\ \E f \in Discovered :
       /\ f <= maxConcurrentWorkers
       /\ ext[f].pc = "exited"
       /\ ext[f].handled
  /\ \E g \in Discovered : g > maxConcurrentWorkers /\ pub[g].pc # "idle"

\* C15: when the publish of a document failed and the loop has moved past
\* it, the next document of the extracted set has been submitted; when the
\* run has ended after Phase 2, every document of the extracted set has been
\* submitted for publishing.
C15_PublishFailureIsolated ==
  /\ \A k \in 1..(Len(extractedFiles) - 1) :
       ( /\ pub[extractedFiles[k].fileName].pc = "exited"
         /\ (pubIdx > k \/ pc = "exited") )
       => pub[extractedFiles[k + 1].fileName].pc # "idle"
  /\ (pc = "exited" /\ phase2Starts = 1)
     => \A k \in 1..Len(extractedFiles) :
          pub[extractedFiles[k].fileName].pc \in {"posted", "exited"}

\* the document after a failed publish was published
C15_Witness ==
  \E k \in 1..(Len(extractedFiles) - 1) :
    /\ pub[extractedFiles[k].fileName].pc = "exited"
    /\ pub[extractedFiles[k + 1].fileName].success

\* C16: the extracted set only grows by appending, and a publish worker is
\* started only for the next entry of the extracted set, after the workers
\* of all entries before it were started.
C16_PublishInExtractionOrder ==
  [][ /\ Len(extractedFiles') >= Len(extractedFiles)
      /\ \A k \in 1..Len(extractedFiles) : extractedFiles'[k] = extractedFiles[k]
      /\ \A f \in FileNames :
           (pub[f].pc = "idle" /\ pub'[f].pc # "idle")
           => /\ pubIdx' = pubIdx + 1
              /\ pubIdx' <= Len(extractedFiles')
              /\ extractedFiles'[pubIdx'].fileName = f
              /\ \A j \in 1..(pubIdx' - 1) :
                   pub[extractedFiles'[j].fileName].pc # "idle" ]_vars

\* the file discovered second finished extraction first and is published
\* while the file discovered first has no publish worker yet
C16_Witness ==
  /\ Len(extractedFiles) >= 2
  /\ extractedFiles[1].fileName > extractedFiles[2].fileName
  /\ pub[extractedFiles[1].fileName].pc # "idle"
  /\ pub[extractedFiles[2].fileName].pc = "idle"

\* C18: when the intake directory does not exist the run ends with exit
\* code 1 at its first step: no extraction worker and no publish worker is
\* started, no CMS call is made and no file is moved.
C18_MissingDirectory ==
  ~dirExists
  => /\ pc \in {"start", "exited"}
     /\ pc = "exited" => exitCode = 1
     /\ \A f \in FileNames :
          /\ ext[f] = ExtIdle
          /\ pub[f] = PubIdle
          /\ calls[f] = <<>>
     /\ writes = <<>>
     /\ archive = {}
     /\ phase2Starts = 0
     /\ activeWorkers = 0

\* the run over a missing intake directory has ended
C18_Witness ==
  ~dirExists /\ pc = "exited" /\ exitCode = 1

RegionBranches(i) ==
  {e.branch : e \in {x \in Range(walk.st.log) : contains(<<i>>, x.node)}}

\* body child i is a heading that opened the scope of the given name, and
\* no body child before it did
OpensFirst(i, scope) ==
  LET opened(j) ==
        /\ walk.doc.kids[j].tag \in headingTags
        /\ IF scope \in {"tags", "categories"}
           THEN /\ [node |-> <<j>>, branch |-> "post-tag"] \in Range(walk.st.log)
                /\ parsePostTag(walk.doc.kids[j]).inList = scope
           ELSE [node |-> <<j>>, branch |-> scope] \in Range(walk.st.log)
  IN opened(i) /\ \A j \in 1..(i - 1) : ~opened(j)

\* the texts of the list items directly under a list, as parseText gives them
ItemTexts(list) ==
  LET lis == SelectSeq(list.kids, LAMBDA k : k.tag = "li")
  IN [k \in 1..Len(lis) |-> parseText(trim(textContent(lis[k])))]

\* C19: when a block:tldr heading opened the tldr scope and the next element
\* is the list of the items A, B, C, then after the walk of that list the
\* tldr block holds exactly these three items in input order, is closed and
\* was flushed once as a tldr block, and no node of the list went through
\* the generic content branch.
C19_TldrThreeItems ==
  walk.next > 0
  => \A i \in 1..(Len(walk.doc.kids) - 1) :
       ( /\ walk.next > i + 1
         /\ ~walk.st.threw
         /\ walk.doc.kids[i + 1] \in {ListABC, ListABCMarkup}
         /\ OpensFirst(i, "tldr") )
       => /\ Len(walk.st.rpv.tldr.items) = 3
          /\ walk.st.rpv.tldr.items = ItemTexts(walk.doc.kids[i + 1])
          /\ walk.st.rpv.tldr.listParsed
          /\ includes(walk.st.rpv.postContent, tldrBlock(walk.st.rpv.tldr.items))
          /\ RegionBranches(i + 1) \subseteq {"list", "text"}

\* the walk went through a tldr heading and the list A, B, C after it, and
\* then transcoded a paragraph into the body
C19_Witness ==
  /\ walk.next = 4
  /\ ~walk.st.threw
  /\ walk.doc.kids[2] = ListABC
  /\ OpensFirst(1, "tldr")
  /\ walk.doc.kids[3].tag = "p"
  /\ walk.st.rpv.tldr.items = <<<<"A">>, <<"B">>, <<"C">>>>

\* C20: when a heading opened a block, tags or categories scope and the
\* next element is a list or a table, no node of that list or table goes
\* through the generic content branch or the inline child pass, and the
\* heading itself is not emitted as a heading block.
C20_BlockRegionNotInBody ==
  walk.next > 0
  => \A i \in 1..(Len(walk.doc.kids) - 1) :
       ( /\ walk.next > i + 1
         /\ walk.doc.kids[i + 1].tag \in {"ul", "table"}
         /\ \E scope \in {"tldr", "tags", "categories", "faq", "objects-reports"} :
              /\ OpensFirst(i, scope)
              /\ (walk.doc.kids[i + 1].tag = "ul") = (scope \in {"tldr", "tags", "categories"}) )
       => /\ RegionBranches(i + 1) \cap {"generic", "inline"} = {}
          /\ "generic" \notin RegionBranches(i)

\* the scope that is open in a walker state: "" for NORMAL
ScopeOf(st) == IF st.inList # "" THEN st.inList ELSE st.inTable

\* C25: the list scope and the table scope are never both set, and a step
\* of the walk that starts with a scope open ends in that same scope or in
\* NORMAL: a marker met while a scope is open opens nothing.
C25_SingleScope ==
  [][ /\ ~(walk'.st.inList # "" /\ walk'.st.inTable # "")
      /\ ScopeOf(walk.st) # "" => ScopeOf(walk'.st) \in {"", ScopeOf(walk.st)} ]_vars

\* a block:faq heading was walked while the tldr scope was open, and the
\* tldr scope is still the one that is open
C25_Witness ==
  /\ walk.next = 3
  /\ walk.doc.kids[1] = Heading("h2", <<"block", ":", "tldr">>)
  /\ walk.doc.kids[2] = Heading("h2", <<"block", ":", "faq">>)
  /\ walk.st.inList = "tldr"
  /\ walk.st.inTable = ""
  /\ [node |-> <<2>>, branch |-> "list"] \in Range(walk.st.log)

\* the element nodes of the region under body child i, the child included
ElementsOf(i) ==
  {p \in {<<i>>} \cup Range(descendants(walk.doc.kids[i], <<i>>)) :
     IsElement(NodeAt(walk.doc, p))}

\* what the dispatch of one element may change while a scope is open: the
\* block of the scope, and on closure the scope variable and the body, by
\* the one pre-rendered block
FrameOfScope(st, s2) ==
  LET scope == ScopeOf(st)
  IN /\ DOMAIN s2.rpv = DOMAIN st.rpv
     /\ \A k \in DOMAIN st.rpv \ {scope, "postContent"} : s2.rpv[k] = st.rpv[k]
     /\ s2.threw = st.threw
     /\ s2.childNode = st.childNode
     /\ ScopeOf(s2) \in {"", scope}
     /\ IF ScopeOf(s2) = scope
        THEN s2.rpv.postContent = st.rpv.postContent
        ELSE s2.rpv.postContent \in
               { st.rpv.postContent,
                 st.rpv.postContent \o
                   (IF scope = "tldr" THEN tldrBlock(s2.rpv.tldr.items)
                    ELSE IF scope = "objectsReports"
                    THEN objectsReportsBlock(s2.rpv.objectsReports)
                    ELSE <<>>) }

\* C26: while a list or table scope is open, an element that is dispatched
\* takes the branch of the open scope and changes nothing but the block of
\* that scope (title, author, description, schema and every other field
\* stay, no key is added, no image is resolved and no error is thrown); the
\* body changes only on closure, by the one flushed block.  A step of the
\* walk that leaves the scope open leaves the body as it was.
C26_OpenScopeFrame ==
  [][ ScopeOf(walk.st) # "" =>
        /\ \A p \in ElementsOf(walk.next) :
             /\ branchOf(walk.st, NodeAt(walk.doc, p)) \in {"list", "table"}
             /\ FrameOfScope(walk.st, dispatch(walk.st, walk.doc, p))
        /\ ScopeOf(walk'.st) = ScopeOf(walk.st) =>
             /\ \A k \in DOMAIN walk.st.rpv \ {ScopeOf(walk.st)} :
                  walk'.st.rpv[k] = walk.st.rpv[k]
             /\ DOMAIN walk'.st.rpv = DOMAIN walk.st.rpv
             /\ ~walk'.st.threw ]_vars

\* an image marker was walked while the tldr scope was open: nothing was
\* resolved, nothing was written and the scope is still open
C26_Witness ==
  /\ walk.next = 3
  /\ walk.doc.kids[1] = Heading("h2", <<"block", ":", "tldr">>)
  /\ walk.doc.kids[2] = Heading("h4", <<"content", ":", "image", ":", "img1">>)
  /\ walk.st.inList = "tldr"
  /\ walk.st.rpv.postContent = <<>>
  /\ ~walk.st.threw

\* a list one of whose items holds a list of its own
HasNestedList(list) ==
  /\ list.tag = "ul"
  /\ \E k \in 1..Len(list.kids) :
       /\ list.kids[k].tag = "li"
       /\ \E j \in 1..Len(list.kids[k].kids) : list.kids[k].kids[j].tag \in {"ul", "ol"}

\* C27: when a heading opened a list scope and the next element is a list
\* with a nested list in one of its items, then after the walk of that list
\* the block holds exactly one item per top-level item, each the flattened
\* text of that item, the block is closed, and every node of the list was
\* dispatched while the scope was open.
C27_NestedListFlattened ==
  walk.next > 0
  => \A i \in 1..(Len(walk.doc.kids) - 1) :
       \A scope \in {"tldr", "tags", "categories"} :
         ( /\ walk.next > i + 1
           /\ HasNestedList(walk.doc.kids[i + 1])
           /\ OpensFirst(i, scope) )
         => /\ walk.st.rpv[scope].items = ItemTexts(walk.doc.kids[i + 1])
            /\ walk.st.rpv[scope].listParsed
            /\ RegionBranches(i + 1) \subseteq {"list", "text"}

\* the number of pre-rendered blocks in a body
BlockCount(content) ==
  Cardinality({i \in 1..Len(content) :
                 content[i] \in {"<!-- wp:acf/hub-and-spoke-tldr",
                                 "<!-- wp:acf/playbook-objects-reports"}})

\* the block of a scope is marked as parsed
IsParsed(st, scope) ==
  IF scope \in {"tldr", "tags", "categories"}
  THEN st.rpv[scope].listParsed ELSE st.rpv[scope].blockParsed

\* the fragment the closure of a scope writes to the body
FlushOf(st, scope) ==
  IF scope = "tldr" /\ Len(st.rpv.tldr.items) > 0 THEN tldrBlock(st.rpv.tldr.items)
  ELSE IF scope = "objectsReports" THEN objectsReportsBlock(st.rpv.objectsReports)
  ELSE <<>>

\* C30: a step of the walk that starts with a scope open and ends with the
\* block of that scope parsed ends in NORMAL; the body after it is the body
\* before it followed by the block of the scope, pre-rendered, for a summary
\* list with items and for a report table, and by nothing for an FAQ table, a
\* tags list and a categories list; what follows in the body is generic
\* content and holds no further block.  The block itself stays in the
\* result.  A step that closes an FAQ table, a tags list or a categories
\* list for the first time, the list holding no nested list, leaves the
\* body as it was.
C30_FlushOnClosure ==
  [][ \A scope \in {"tldr", "tags", "categories", "faq", "objectsReports"} :
        ( /\ ScopeOf(walk.st) = scope
          /\ IsParsed(walk'.st, scope) )
        => LET old == walk.st.rpv.postContent
               new == walk'.st.rpv.postContent
               flush == FlushOf(walk'.st, scope)
           IN /\ ScopeOf(walk'.st) = ""
              /\ Len(new) >= Len(old) + Len(flush)
              /\ SubSeq(new, 1, Len(old) + Len(flush)) = old \o flush
              /\ BlockCount(new) = BlockCount(old) + (IF flush = <<>> THEN 0 ELSE 1)
              /\ scope \in {"faq", "tags", "categories"}
                   /\ ~IsParsed(walk.st, scope)
                   /\ ~HasNestedList(walk.doc.kids[walk.next]) => new = old ]_vars

\* a report table was closed: its block is the whole body and holds the
\* cells of the table
C30_Witness ==
  /\ walk.next = 3
  /\ walk.doc.kids[1] = Heading("h2", <<"block", ":", "objects-reports">>)
  /\ walk.doc.kids[2] = Table2
  /\ ScopeOf(walk.st) = ""
  /\ walk.st.rpv.objectsReports.blockParsed
  /\ walk.st.rpv.objectsReports.column1 = <<<<"q1">>, <<"q2">>>>
  /\ walk.st.rpv.postContent = objectsReportsBlock(walk.st.rpv.objectsReports)

\* the transcoded form of an element: what the walk of a document made of
\* that element alone writes to the body
Fragment(element) ==
  processNode(walkStart, Body(<<element>>), <<1>>).st.rpv.postContent

\* a is a prefix of b
IsPrefix(a, b) == Len(a) <= Len(b) /\ SubSeq(b, 1, Len(a)) = a

BodyRows(i) ==
  LET t == walk.doc.kids[i]
  IN t.kids[Len(t.kids)].kids

\* the table that is body child i has a head
HasHead(i) == walk.doc.kids[i].kids[1].tag = "thead"

\* no cell of the rows holds only whitespace
NoBlankCell(rows) ==
  \A r \in 1..Len(rows) : \A c \in 1..Len(rows[r].kids) :
    trim(textContent(rows[r].kids[c])) # <<>>

\* C21: when a block:objects-reports heading opened the report scope and
\* the next element is a table whose body has 15 rows of non-empty cells,
\* then after the walk of the table the report holds exactly 12 items in
\* column1 and in column2 and exactly 3 items in each overflow sequence.
C21_FifteenRows ==
  ( /\ walk.next > 2
    /\ OpensFirst(1, "objects-reports")
    /\ walk.doc.kids[2].tag = "table"
    /\ Len(BodyRows(2)) = 15
    /\ NoBlankCell(BodyRows(2)) )
  => /\ Len(walk.st.rpv.objectsReports.column1) = 12
     /\ Len(walk.st.rpv.objectsReports.column2) = 12
     /\ Len(walk.st.rpv.objectsReports.column1Hover) = 3
     /\ Len(walk.st.rpv.objectsReports.column2Hover) = 3

\* the block of the result that a table marker stands for
ReportOf(marker) == IF marker = "faq" THEN "faq" ELSE "objectsReports"

\* the path of the last row of the body of the table that is body child i
LastRowPath(i) ==
  <<i, Len(walk.doc.kids[i].kids), Len(BodyRows(i))>>

\* C28: when a table marker opened the faq or the report scope and the next
\* element is a table whose body has one or more rows, then after the walk
\* of the table the block is marked parsed and no scope is open, the cells
\* of the last row were taken as one batch at the row (none of them was
\* dispatched on its own) and are in the columns, and the paragraph after
\* the table is transcoded as generic content.
C28_TableClosesAtLastRow ==
  \A marker \in {"faq", "objects-reports"} :
    ( /\ walk.next > 2
      /\ OpensFirst(1, marker)
      /\ walk.doc.kids[2].tag = "table"
      /\ Len(BodyRows(2)) >= 1 )
    => LET report == walk.st.rpv[ReportOf(marker)]
           last == NodeAt(walk.doc, LastRowPath(2))
       IN /\ report.blockParsed
          /\ ScopeOf(walk.st) = ""
          /\ \A e \in Range(walk.st.log) :
               contains(LastRowPath(2), e.node) => e.node = LastRowPath(2)
          /\ processTableCellContent(last.kids[1])
               \in Range(report.column1 \o report.column1Hover)
          /\ walk.next > 3 => [node |-> <<3>>, branch |-> "generic"] \in Range(walk.st.log)

\* the rows whose cells are items of the columns: every row of an FAQ
\* table; in a report table the cells of the first row are the two
\* headings, unless that row is taken as the terminal batch
ItemRows(i, marker) ==
  IF marker = "faq" \/ (Len(BodyRows(i)) = 1 /\ HasHead(i))
  THEN BodyRows(i) ELSE Tail(BodyRows(i))

\* the rendered contents of the cells of one column of the rows
ColumnCells(rows, c) ==
  [r \in 1..Len(rows) |-> processTableCellContent(rows[r].kids[c])]

RECURSIVE Diverted(_, _, _)
\* the column and its overflow sequence after the cells went in one by one:
\* a cell goes to the overflow if and only if the column already holds more
\* than 12 items and the content of the cell is not empty
Diverted(cells, column, overflow) ==
  IF cells = <<>> THEN [column |-> column, overflow |-> overflow]
  ELSE IF Len(column) > 12 /\ Head(cells) # <<>>
  THEN Diverted(Tail(cells), column, Append(overflow, Head(cells)))
  ELSE Diverted(Tail(cells), Append(column, Head(cells)), overflow)

\* C29: after the walk of a table that follows a table marker, each column
\* of a report and its overflow sequence hold the cells of that column as
\* the rule gives them, cell by cell in row order, the cells of the last
\* row included: to the overflow if and only if the column already holds
\* more than 12 items and the content is not empty.  The columns of an FAQ
\* hold all the cells and its overflow sequences are empty.
C29_OverflowRule ==
  \A marker \in {"faq", "objects-reports"} :
    ( /\ walk.next > 2
      /\ OpensFirst(1, marker)
      /\ walk.doc.kids[2].tag = "table" )
    => LET report == walk.st.rpv[ReportOf(marker)]
           left == ColumnCells(ItemRows(2, marker), 1)
           right == ColumnCells(ItemRows(2, marker), 2)
       IN IF marker = "faq"
          THEN /\ report.column1 = left
               /\ report.column2 = right
               /\ report.column1Hover = <<>>
               /\ report.column2Hover = <<>>
          ELSE /\ report.column1 = Diverted(left, <<>>, <<>>).column
               /\ report.column1Hover = Diverted(left, <<>>, <<>>).overflow
               /\ report.column2 = Diverted(right, <<>>, <<>>).column
               /\ report.column2Hover = Diverted(right, <<>>, <<>>).overflow

\* a report table of 16 rows was closed: 13 cells and then the empty cell of
\* row 15 are in column1, and the cell of the last row is in its overflow
C29_Witness ==
  /\ walk.next > 2
  /\ OpensFirst(1, "objects-reports")
  /\ Len(BodyRows(2)) = 16
  /\ walk.st.rpv.objectsReports.blockParsed
  /\ Len(walk.st.rpv.objectsReports.column1) = 14
  /\ walk.st.rpv.objectsReports.column1[14] = <<>>
  /\ walk.st.rpv.objectsReports.column1Hover = <<<<"L", "16">>>>

\* the body children walked so far that are h1 elements
WalkedH1 == {i \in 1..(walk.next - 1) : walk.doc.kids[i].tag = "h1"}

\* C24: once an h1 of the document was walked, the title is the text of the
\* first h1, whatever was walked before and after it, and no node of an h1
\* went through the generic content branch or the inline child pass.
C24_TitleIsFirstH1 ==
  WalkedH1 # {}
  => LET first == CHOOSE i \in WalkedH1 : \A j \in WalkedH1 : i <= j
     IN /\ walk.st.rpv.title = parseText(textContent(walk.doc.kids[first]))
        /\ \A i \in WalkedH1 : RegionBranches(i) \cap {"generic", "inline"} = {}

\* a heading that holds a post-tag:schema: marker
IsSchemaMarker(element) ==
  /\ element.tag \in headingTags
  /\ includes(textContent(element), <<"post-tag", ":", "schema", ":">>)

\* the schema markers whose payload is not valid JSON
InvalidSchemaMarkers ==
  {SchemaMarker(<<"{", "#invalid", "}">>), SchemaMarker(<<"oops">>)}

RECURSIVE RunTo(_, _)
\* the walker state after the first k body children of a document
RunTo(doc, k) ==
  IF k = 0 THEN logged([walkStart EXCEPT !.processed = {<<>>}], <<>>, "none")
  ELSE processNode(RunTo(doc, k - 1), doc, <<k>>).st

\* what a walk has produced, the schema set aside: the fields of the result,
\* the open scope and whether an error was thrown
Outcome(st) ==
  [title |-> st.rpv.title, author |-> st.rpv.author,
   description |-> st.rpv.description, postContent |-> st.rpv.postContent,
   tldr |-> <<st.rpv.tldr.items, st.rpv.tldr.listParsed>>,
   keys |-> DOMAIN st.rpv, inList |-> st.inList, inTable |-> st.inTable,
   threw |-> st.threw]

\* the branches taken, in walk order, by the nodes of the body children from
\* position i on
BranchesFrom(st, i) ==
  LET later == SelectSeq(st.log, LAMBDA e : e.node # <<>> /\ e.node[1] >= i)
  IN [k \in 1..Len(later) |-> later[k].branch]

ScopeOfMarker(marker) ==
  IF includes(textContent(marker), <<"block", ":", "tldr">>) THEN "tldr"
  ELSE parsePostTag(marker).inList

\* C39: when the first and the third element of a document are markers of
\* the same list scope, each followed by a list, then after the walk of the
\* second list the block ends with the items of the second list, every
\* node of the second list was dispatched while the scope was open, and the
\* block of the first list is not in the body a second time.
C39_SecondScopeAccumulates ==
  ( /\ walk.next = 5
    /\ ScopeOfMarker(walk.doc.kids[1]) = ScopeOfMarker(walk.doc.kids[3]) )
  => LET scope == ScopeOfMarker(walk.doc.kids[1])
         items == walk.st.rpv[scope].items
         second == ItemTexts(walk.doc.kids[4])
         firstBlock == tldrBlock(ItemTexts(walk.doc.kids[2]))
     IN /\ Len(items) >= Len(second)
        /\ SubSeq(items, Len(items) - Len(second) + 1, Len(items)) = second
        /\ RegionBranches(4) \subseteq {"list", "text"}
        /\ ~includes(walk.st.rpv.postContent, firstBlock \o firstBlock)

\* the data cells of the table that is body child i, as paths
DataCells(i) == querySelectorAll(walk.doc, <<i>>, {"td"})

\* the number of items a report holds over its columns and overflows
ItemCount(report) ==
  Len(report.column1) + Len(report.column2)
  + Len(report.column1Hover) + Len(report.column2Hover)

\* the number of headings a report captured from data cells
CapturedHeadings(report, marker) ==
  IF marker = "faq" THEN 0
  ELSE (IF report.heading1 # Undefined THEN 1 ELSE 0)
       + (IF report.heading2 # Undefined THEN 1 ELSE 0)

\* the number of times the walker dispatched the node at path
Dispatches(path) ==
  Cardinality({k \in 1..Len(walk.st.log) : walk.st.log[k].node = path})

\* C38: after a table that follows a table marker was walked and its block
\* closed, the items over column1, column2 and both overflow sequences are
\* as many as the data cells of the table less the captured headings; the
\* walker dispatched every data cell outside the last row once, and no cell
\* of the last row: those were added by the batch on closure.
C38_CellsAddedOnce ==
  \A marker \in {"faq", "objects-reports"} :
    ( /\ walk.next > 2
      /\ OpensFirst(1, marker)
      /\ walk.doc.kids[2].tag = "table"
      /\ walk.st.rpv[ReportOf(marker)].blockParsed )
    => LET report == walk.st.rpv[ReportOf(marker)]
       IN /\ ItemCount(report)
               = Len(DataCells(2)) - CapturedHeadings(report, marker)
          /\ \A c \in Range(DataCells(2)) :
               Dispatches(c) = IF contains(LastRowPath(2), c) THEN 0 ELSE 1

\* a report table of three rows was closed: two cells are its headings and
\* the other four are its items, two of them from the batch of the last row
C38_Witness ==
  /\ walk.next > 2
  /\ OpensFirst(1, "objects-reports")
  /\ Len(BodyRows(2)) = 3
  /\ ~HasHead(2)
  /\ walk.st.rpv.objectsReports.blockParsed
  /\ walk.st.rpv.objectsReports.heading1 = <<"L", "1">>
  /\ walk.st.rpv.objectsReports.column1 = <<<<"L", "2">>, <<"L", "3">>>>
  /\ ItemCount(walk.st.rpv.objectsReports) = 4

\* C37: a step of the walk that applies a post-tag marker leaves the body,
\* the list blocks and the table blocks as they were.
C37_PostTagFrame ==
  [][ ( /\ walk.doc.kids[walk.next].tag \in headingTags
        /\ branchOf(walk.st, walk.doc.kids[walk.next]) = "post-tag" )
      => \A k \in {"postContent", "tldr", "tags", "categories", "faq", "objectsReports"} :
           walk'.st.rpv[k] = walk.st.rpv[k] ]_vars

\* the nodes strictly inside the node at path
StrictlyInside(path, node) == contains(path, node) /\ node # path

\* C31: no node is dispatched twice; every dispatched node is flagged as
\* processed; and nothing inside a node that a converter consumed on
\* closure (the last item of a closed list, the last row of a closed
\* table) is ever dispatched.
C31_DispatchedOnce ==
  walk.next > 0
  => /\ \A j, k \in 1..Len(walk.st.log) :
          j # k => walk.st.log[j].node # walk.st.log[k].node
     /\ \A e \in Range(walk.st.log) : e.node \in walk.st.processed
     /\ \A scope \in {"tldr", "tags", "categories"} :
          walk.st.rpv[scope].listParsed
          => \A e \in Range(walk.st.log) :
               ~StrictlyInside(walk.st.rpv[scope].lastNode, e.node)
     /\ \A scope \in {"faq", "objectsReports"} :
          walk.st.rpv[scope].blockParsed
          => \A e \in Range(walk.st.log) :
               ~StrictlyInside(walk.st.rpv[scope].lastNode, e.node)

\* a generic list with inline markup in an item was walked: the strong
\* element went through the inline child pass once and the walker's own
\* recursion did not dispatch it again
C31_Witness ==
  /\ walk.next = 2
  /\ walk.doc.kids[1] = ListABCMarkup
  /\ ScopeOf(walk.st) = ""
  /\ [node |-> <<1, 4, 2>>, branch |-> "inline"] \in Range(walk.st.log)
  /\ <<1, 4, 2>> \in walk.st.childNode
  /\ {<<1, 4, 1>>, <<1, 4, 2>>, <<1, 4, 2, 1>>} \subseteq walk.st.processed

\* the position of the first occurrence of a token in a text, 0 for none
FirstIndex(t, token) ==
  IF \A i \in 1..Len(t) : t[i] # token THEN 0
  ELSE CHOOSE i \in 1..Len(t) : t[i] = token /\ \A j \in 1..(i - 1) : t[j] # token

\* the items of a list that hold a text followed by a list of their own
MixedItems(list) ==
  {k \in 1..Len(list.kids) :
     /\ list.kids[k].tag = "li"
     /\ Len(list.kids[k].kids) = 2
     /\ list.kids[k].kids[1].tag = "#text"
     /\ list.kids[k].kids[2].tag \in {"ul", "ol"}}

\* C32: when the first element of a document is a list that is transcoded
\* as generic content and one of its items holds a text followed by a
\* nested list, the text of the item is in the body before the text of the
\* nested list.
C32_TextBeforeNestedBlock ==
  ( /\ walk.next > 1
    /\ walk.doc.kids[1].tag = "ul"
    /\ [node |-> <<1>>, branch |-> "generic"] \in Range(walk.st.log) )
  => \A k \in MixedItems(walk.doc.kids[1]) :
       LET item == walk.doc.kids[1].kids[k]
           own == parseText(item.kids[1].text)[1]
           nested == textContent(item.kids[2])[1]
       IN /\ FirstIndex(walk.st.rpv.postContent, own) > 0
          /\ FirstIndex(walk.st.rpv.postContent, own)
               < FirstIndex(walk.st.rpv.postContent, nested)

\* the element holds a span somewhere below it
HoldsSpan(element) ==
  \E p \in Range(descendants(element, <<>>)) : NodeAt(element, p).tag = "span"

\* the number of occurrences of a token in a text
Occurrences(t, token) == Cardinality({i \in 1..Len(t) : t[i] = token})

\* C33: after the first element of a document, a generic element that
\* holds a span, was walked, no error was thrown, the text of the span is
\* in the body exactly once, inside the wrapper of the element, and the
\* body holds no span tag.
C33_SpanTransparent ==
  ( /\ walk.next = 2
    /\ HoldsSpan(walk.doc.kids[1])
    /\ [node |-> <<1>>, branch |-> "generic"] \in Range(walk.st.log) )
  => LET body == walk.st.rpv.postContent
     IN /\ ~walk.st.threw
        /\ Occurrences(body, "s") = 1
        /\ Occurrences(body, "span") = 0
        /\ Len(body) > Len(genericOpen(walk.doc.kids[1].tag))
        /\ IsPrefix(genericOpen(walk.doc.kids[1].tag), body)
        /\ FirstIndex(body, "s") > Len(genericOpen(walk.doc.kids[1].tag))

\* the extractions in flight: the files handed to processFile whose finally
\* block has not run
ExtractionsInFlight == {f \in FileNames : ext[f].pc # "idle" /\ ~ext[f].handled}

\* a step in which processFile runs its finally block for some file
Handles == \E f \in FileNames : ~ext[f].handled /\ ext'[f].handled

\* C34: once the initial loop has run, whenever files are queued exactly 4
\* extractions are in flight; and a step that handles the completion or
\* the failure of an extraction while files are queued starts the file at
\* the head of the queue in the same step, so that the number in flight is
\* unchanged.
C34_WorkConserving ==
  /\ []((pc # "start" /\ processingQueue # <<>>)
          => /\ activeWorkers = maxConcurrentWorkers
             /\ Cardinality(ExtractionsInFlight) = maxConcurrentWorkers)
  /\ [][(Handles /\ processingQueue # <<>>)
          => /\ ext[Head(processingQueue)].pc = "idle"
             /\ ext'[Head(processingQueue)].pc = "running"
             /\ processingQueue' = Tail(processingQueue)
             /\ activeWorkers' = activeWorkers]_vars

\* the last queued file is being extracted in the slot freed by a failed
\* extraction, next to three extractions of the initial loop
C34_Witness ==
  /\ pc = "extracting"
  /\ processingQueue = <<>>
  /\ Cardinality(ExtractionsInFlight) = maxConcurrentWorkers
  /\ ext[PoolFiles].pc = "running"
  /\ \E f \in 1..maxConcurrentWorkers :
       /\ ext[f].handled
       /\ ext[f].pc = "exited"
       /\ \A g \in 1..maxConcurrentWorkers : g # f => ~ext[g].handled

\* a step in which the publisher issues a create for file f
IssuesCreate(f) ==
  /\ Len(writes') = Len(writes) + 1
  /\ writes'[Len(writes')].call.file = f
  /\ writes'[Len(writes')].call.method = "POST"

\* C35: a create is issued for a document only when its existence lookup
\* did not fail: no create follows a lookup that ended with a transport
\* error.
C35_NoCreateAfterFailedLookup ==
  [][\A f \in FileNames :
       IssuesCreate(f) => pub[f].err # "existsTransport"]_vars

\* the successful creates issued so far for the slug of file g by another
\* file of the batch
EarlierCreates(g) ==
  {i \in 1..Len(writes) :
     /\ writes[i].ok
     /\ writes[i].call.method = "POST"
     /\ writes[i].call.file # g
     /\ writes[i].call.slug = pub[g].blogData.url}

\* a step in which the publisher issues the write call of file g
IssuesWrite(g) ==
  /\ Len(writes') = Len(writes) + 1
  /\ writes'[Len(writes')].call.file = g

\* C36: when no existence lookup of the run failed and a document with a
\* non-empty slug reaches its write after another document of the batch
\* created the record of that slug, its write is an update addressed to
\* the record created, so that the slug is created once, whichever of the
\* two extractions completed first.
C36_SameSlugOneCreate ==
  [][\A g \in FileNames :
       ( /\ IssuesWrite(g)
         /\ pub[g].blogData.url # ""
         /\ \A f \in FileNames : pub[f].err # "existsTransport"
         /\ EarlierCreates(g) # {} )
       => /\ writes'[Len(writes')].call.method = "PUT"
          /\ \A i \in EarlierCreates(g) :
               writes'[Len(writes')].call.id = writes[i].postId
          /\ Cardinality(EarlierCreates(g)) = 1]_vars

\* the file whose extraction completed first was published first and
\* created the record; the other file of the batch, with the same slug,
\* updated that record
C36_Witness ==
  /\ \A f \in FileNames : pub[f].err # "existsTransport"
  /\ Len(extractedFiles) = 2
  /\ extractedFiles[1].fileName = 2
  /\ Len(writes) = 2
  /\ writes[1].call.file = 2
  /\ writes[1].call.method = "POST"
  /\ writes[1].ok
  /\ writes[2].call.file = 1
  /\ writes[2].call.method = "PUT"
  /\ writes[2].call.slug = writes[1].call.slug
  /\ writes[2].call.slug # ""
  /\ writes[2].call.id = writes[1].postId
  /\ writes[2].ok
  /\ Cardinality({p \in Range(posts) : p.slug = writes[1].call.slug}) = 1

====
